---------------------------- MODULE Spec2Model ----------------------------
(***************************************************************************)
(* A model of blockparty's props extraction (src/src/extractProps.ts).     *)
(*                                                                         *)
(* The TypeScript parser is the collaborator: a source file is its syntax  *)
(* tree, a record whose nodes carry their kind, their children and the     *)
(* source substring getText() returns for them.  The extraction functions  *)
(* are operators over these trees, computed as the code computes them.     *)
(* JavaScript's only failure on this path, RangeError (Maximum call stack  *)
(* size exceeded), is a result of its own: the extractors carry the set of *)
(* declarations whose extraction is in progress (callStack); entering one  *)
(* of them again repeats a call with the same arguments, which never       *)
(* returns, and the engine ends it with the RangeError.                    *)
(***************************************************************************)
EXTENDS Integers, Sequences, FiniteSets, TLC

VARIABLES input, pc, output

vars == <<input, pc, output>>

(***************************************************************************)
(* Results.  A list-returning function returns Ret(list) or Throw; a       *)
(* PropType-returning function returns a PropType or RangeError.           *)
(***************************************************************************)
Ret(list) == [threw |-> FALSE, props |-> list]

Throw == [threw |-> TRUE, props |-> <<>>]

RangeError == [kind |-> "RangeError", syntax |-> ""]

\* null / undefined for a node-valued result: no node, or <<node>>.
Null == <<>>

\* PropDefinition.description is absent (<<>>) or present (<<text>>).
Undefined == <<>>

RECURSIVE Join(_, _)
Join(texts, sep) ==
    IF texts = <<>> THEN ""
    ELSE IF Len(texts) = 1 THEN texts[1]
    ELSE texts[1] \o sep \o Join(Tail(texts), sep)

Texts(nodes) == [i \in 1..Len(nodes) |-> nodes[i].text]

RECURSIVE Flatten(_)
Flatten(seqs) ==
    IF seqs = <<>> THEN <<>> ELSE seqs[1] \o Flatten(Tail(seqs))

(***************************************************************************)
(* Syntax trees, as the parser builds them.                                *)
(***************************************************************************)
\* A literal expression: src is its source text, text its value (StringLiteral.text
\* holds the characters between the quotes).
StringLiteral(q, v) == [kind |-> "StringLiteral", src |-> q \o v \o q, text |-> v]

NumericLiteral(v) == [kind |-> "NumericLiteral", src |-> v, text |-> v]

TrueKeyword == [kind |-> "TrueKeyword", src |-> "true", text |-> "true"]

KeywordType(t) == [kind |-> "KeywordType", text |-> t]

LiteralType(lit) == [kind |-> "LiteralType", text |-> lit.src, literal |-> lit]

TupleType(els) ==
    [kind |-> "TupleType", text |-> "[" \o Join(Texts(els), ", ") \o "]", elements |-> els]

UnionType(ts) ==
    [kind |-> "UnionType", text |-> Join(Texts(ts), " | "), types |-> ts]

IntersectionType(ts) ==
    [kind |-> "IntersectionType", text |-> Join(Texts(ts), " & "), types |-> ts]

ArrayType(el) == [kind |-> "ArrayType", text |-> el.text \o "[]", elementType |-> el]

ParenthesizedType(t) ==
    [kind |-> "ParenthesizedType", text |-> "(" \o t.text \o ")", type |-> t]

TypeReference(n) == [kind |-> "TypeReference", text |-> n, typeName |-> [text |-> n]]

\* A parameter of a function or of a function type; type is <<>> or <<typeNode>>.
Parameter(n, q, t) ==
    [kind |-> "Parameter", name |-> [text |-> n], questionToken |-> q, type |-> t,
     text |-> n \o (IF q THEN "?" ELSE "") \o (IF t = <<>> THEN "" ELSE ": " \o t[1].text)]

FunctionType(ps) ==
    [kind |-> "FunctionType", text |-> "(" \o Join(Texts(ps), ", ") \o ") => void",
     parameters |-> ps]

\* A comment range in front of a member: its text, a sequence of characters.
PropertySignature(n, q, t, cs) ==
    [kind |-> "PropertySignature", name |-> [text |-> n], questionToken |-> q,
     type |-> t, comments |-> cs,
     text |-> n \o (IF q THEN "?" ELSE "") \o (IF t = <<>> THEN "" ELSE ": " \o t[1].text)]

MethodSignature(n) ==
    [kind |-> "MethodSignature", name |-> [text |-> n], questionToken |-> FALSE,
     type |-> <<>>, comments |-> <<>>, text |-> n \o "(): void"]

TypeLiteral(ms) ==
    [kind |-> "TypeLiteral",
     text |-> IF ms = <<>> THEN "{}" ELSE "{ " \o Join(Texts(ms), "; ") \o " }",
     members |-> ms]

\* interface n extends e1, e2 { ms }: heritageClauses is <<>> or one extends clause.
InterfaceDeclaration(n, exts, ms) ==
    [kind |-> "InterfaceDeclaration", name |-> [text |-> n],
     heritageClauses |->
        IF exts = <<>> THEN <<>>
        ELSE << [token |-> "ExtendsKeyword",
                 types |-> [i \in 1..Len(exts) |-> [expression |-> [text |-> exts[i]]]]] >>,
     members |-> ms]

TypeAliasDeclaration(n, t) ==
    [kind |-> "TypeAliasDeclaration", name |-> [text |-> n], type |-> t]

ArrowFunction(ps) == [kind |-> "ArrowFunction", parameters |-> ps]

FunctionExpression(ps) == [kind |-> "FunctionExpression", parameters |-> ps]

Identifier(n) == [kind |-> "Identifier", text |-> n]

CallExpression(n) == [kind |-> "CallExpression", text |-> n \o "()"]

\* function n(ps) { body }, with its modifiers (export, default).
FunctionDeclaration(n, mods, ps, body) ==
    [kind |-> "FunctionDeclaration", name |-> [text |-> n], modifiers |-> mods,
     parameters |-> ps, body |-> body]

\* const n = init
VariableStatement(n, init) ==
    [kind |-> "VariableStatement",
     declarations |-> << [name |-> [kind |-> "Identifier", text |-> n],
                          initializer |-> <<init>>] >>]

ExportAssignment(eq, e) ==
    [kind |-> "ExportAssignment", isExportEquals |-> eq, expression |-> e]

SourceFile(f, stmts) == [fileName |-> f, statements |-> stmts]

(***************************************************************************)
(* visit + ts.forEachChild: the nodes of a file in the order the walk      *)
(* meets them.  A function declaration's body is walked after the          *)
(* declaration itself.                                                     *)
(***************************************************************************)
RECURSIVE Walk(_)
Walk(stmts) ==
    IF stmts = <<>> THEN <<>>
    ELSE LET s == stmts[1]
         IN <<s>> \o (IF s.kind = "FunctionDeclaration" THEN Walk(s.body) ELSE <<>>)
                \o Walk(Tail(stmts))

Last(seq) == IF seq = <<>> THEN Null ELSE <<seq[Len(seq)]>>

isFunctionLike(e) == e.kind \in {"ArrowFunction", "FunctionExpression"}


(***************************************************************************)
(* String functions of JavaScript, on sequences of characters.             *)
(***************************************************************************)
Whitespace == {" ", "\n", "\t"}

startsWith(s, prefix) ==
    Len(s) >= Len(prefix) /\ SubSeq(s, 1, Len(prefix)) = prefix

endsWith(s, suffix) ==
    Len(s) >= Len(suffix) /\ SubSeq(s, Len(s) - Len(suffix) + 1, Len(s)) = suffix

\* s.replace(/^prefix/, '')
removePrefix(s, prefix) ==
    IF startsWith(s, prefix) THEN SubSeq(s, Len(prefix) + 1, Len(s)) ELSE s

\* s.replace(/suffix$/, '')
removeSuffix(s, suffix) ==
    IF endsWith(s, suffix) THEN SubSeq(s, 1, Len(s) - Len(suffix)) ELSE s

RECURSIVE trimStart(_)
trimStart(s) ==
    IF s # <<>> /\ s[1] \in Whitespace THEN trimStart(Tail(s)) ELSE s

RECURSIVE trimEnd(_)
trimEnd(s) ==
    IF s # <<>> /\ s[Len(s)] \in Whitespace THEN trimEnd(SubSeq(s, 1, Len(s) - 1)) ELSE s

trim(s) == trimEnd(trimStart(s))

\* s.split('\n'): the pieces between line feeds, at least one piece.
RECURSIVE split(_)
split(s) ==
    IF \A i \in 1..Len(s) : s[i] # "\n" THEN <<s>>
    ELSE LET i == CHOOSE k \in 1..Len(s) : s[k] = "\n" /\ \A j \in 1..(k - 1) : s[j] # "\n"
         IN <<SubSeq(s, 1, i - 1)>> \o split(SubSeq(s, i + 1, Len(s)))

\* lines.join(' ')
RECURSIVE join(_)
join(lines) ==
    IF lines = <<>> THEN <<>>
    ELSE IF Len(lines) = 1 THEN lines[1]
    ELSE lines[1] \o <<" ">> \o join(Tail(lines))

\* line.trim().replace(/^\* ?/, '')
\* A strip of the leading asterisk that leaves the space after it.
stripAsterisk(line) ==
    LET t == trim(line)
    IN IF startsWith(t, <<"*">>) THEN SubSeq(t, 2, Len(t)) ELSE t

stripLine(line) ==
    LET t == trim(line)
    IN IF startsWith(t, <<"*", " ">>) THEN SubSeq(t, 3, Len(t))
       ELSE IF startsWith(t, <<"*">>) THEN SubSeq(t, 2, Len(t))
       ELSE t

\* The chain of lines 155-162, applied to a comment that starts with /**.
parseJSDoc(commentText) ==
    LET opened == removePrefix(commentText, <<"/", "*", "*">>)
        closed == removeSuffix(opened, <<"*", "/">>)
        lines == split(closed)
        stripped == [i \in 1..Len(lines) |-> stripLine(lines[i])]
        kept == SelectSeq(stripped, LAMBDA l : Len(l) > 0)
    IN trim(join(kept))

\* A loop that returns at the first comment starting with /** of the first i.
firstJSDoc(commentRanges, i) ==
    LET docs == SelectSeq(SubSeq(commentRanges, 1, i),
                          LAMBDA text : startsWith(text, <<"/", "*", "*">>))
    IN IF docs = <<>> THEN Undefined ELSE <<parseJSDoc(docs[1])>>

\* The loop of lines 149-164, from index i down to 1.
RECURSIVE lastJSDoc(_, _)
lastJSDoc(commentRanges, i) ==
    IF i = 0 THEN Undefined
    ELSE IF startsWith(commentRanges[i], <<"/", "*", "*">>)
         THEN <<parseJSDoc(commentRanges[i])>>
         ELSE lastJSDoc(commentRanges, i - 1)

\* node.comments are the leading comment ranges of the node, in source order.
extractJSDocComment(node, sourceFile) ==
    IF Len(node.comments) = 0 THEN Undefined
    ELSE lastJSDoc(node.comments, Len(node.comments))

(***************************************************************************)
(* Lookups by walking the file.                                            *)
(***************************************************************************)
isTypeDeclaration(n) == n.kind \in {"InterfaceDeclaration", "TypeAliasDeclaration"}

\* visit overwrites result at every match: the last match of the walk is returned.
findTypeDeclaration(sourceFile, typeName) ==
    Last(SelectSeq(Walk(sourceFile.statements),
                   LAMBDA n : isTypeDeclaration(n) /\ n.name.text = typeName))

\* The function values a node binds to name: the declaration itself, or the
\* function initializers of a variable statement's declarations.
functionsNamed(n, name) ==
    IF n.kind = "FunctionDeclaration"
    THEN IF n.name.text = name THEN <<n>> ELSE <<>>
    ELSE IF n.kind = "VariableStatement"
    THEN LET ds == SelectSeq(n.declarations,
                     LAMBDA d : d.name.kind = "Identifier" /\ d.name.text = name
                                /\ d.initializer # <<>>
                                /\ isFunctionLike(d.initializer[1]))
         IN [i \in 1..Len(ds) |-> ds[i].initializer[1]]
    ELSE <<>>

findFunctionDeclaration(sourceFile, name) ==
    LET nodes == Walk(sourceFile.statements)
    IN Last(Flatten([i \in 1..Len(nodes) |-> functionsNamed(nodes[i], name)]))

\* A lookup that takes every exported function for the default export.
isAnyExport(n) ==
    \/ n.kind = "ExportAssignment"
    \/ n.kind = "FunctionDeclaration" /\ "export" \in n.modifiers

isDefaultExport(n) ==
    \/ n.kind = "ExportAssignment" /\ ~n.isExportEquals
    \/ n.kind = "FunctionDeclaration" /\ "export" \in n.modifiers /\ "default" \in n.modifiers

findDefaultExportFunction(sourceFile) ==
    LET defaultExport == Last(SelectSeq(Walk(sourceFile.statements), isDefaultExport))
    IN IF defaultExport = Null THEN Null
       ELSE LET d == defaultExport[1]
            IN IF d.kind = "FunctionDeclaration" THEN <<d>>
               ELSE IF isFunctionLike(d.expression) THEN <<d.expression>>
               ELSE IF d.expression.kind = "Identifier"
                    THEN findFunctionDeclaration(sourceFile, d.expression.text)
               ELSE Null

(***************************************************************************)
(* The type checker of a program (whole-program mode), as far as the       *)
(* extraction asks it: typeChecker.getTypeAtLocation(ref).getSymbol()      *)
(* .declarations[0] with the file that holds it, for a reference by name   *)
(* in a file.  A name is looked up among the file's top-level              *)
(* declarations, then among its imports; the declarations of a merged      *)
(* interface are in source order, so declarations[0] is the first; the     *)
(* type of an alias is the type of its target, whose symbol is the type    *)
(* literal's or the referenced type's own.                                 *)
(***************************************************************************)
ImportDeclaration(names, from) ==
    [kind |-> "ImportDeclaration", names |-> names, moduleSpecifier |-> from]

RECURSIVE getSymbolDeclaration(_, _, _, _)
getSymbolDeclaration(typeChecker, sourceFile, name, fuel) ==
    LET local == SelectSeq(sourceFile.statements,
                           LAMBDA n : isTypeDeclaration(n) /\ n.name.text = name)
        imports == SelectSeq(sourceFile.statements,
                             LAMBDA n : n.kind = "ImportDeclaration" /\ name \in n.names
                                        /\ n.moduleSpecifier \in DOMAIN typeChecker.files)
    IN IF fuel = 0 THEN Null
       ELSE IF local # <<>>
       THEN IF local[1].kind = "InterfaceDeclaration"
            THEN << [declaration |-> local[1], sourceFile |-> sourceFile] >>
            ELSE IF local[1].type.kind = "TypeReference"
                 THEN getSymbolDeclaration(typeChecker, sourceFile,
                                           local[1].type.typeName.text, fuel - 1)
                 ELSE IF local[1].type.kind = "TypeLiteral"
                      THEN << [declaration |-> local[1].type, sourceFile |-> sourceFile] >>
                      ELSE Null
       ELSE IF imports # <<>>
       THEN getSymbolDeclaration(typeChecker,
                                 typeChecker.files[imports[1].moduleSpecifier],
                                 name, fuel - 1)
       ELSE Null

\* A chain of aliases and imports is as long as the program has declarations.
resolveSymbol(typeChecker, sourceFile, name) ==
    getSymbolDeclaration(typeChecker, sourceFile, name,
                         1 + Cardinality(DOMAIN typeChecker.files) * 8)

(***************************************************************************)
(* The shape resolver and the property extractor.                          *)
(***************************************************************************)
RECURSIVE isFunctionType(_)
isFunctionType(typeNode) ==
    IF typeNode.kind = "FunctionType" THEN TRUE
    ELSE IF typeNode.kind = "ParenthesizedType" THEN isFunctionType(typeNode.type)
    ELSE IF typeNode.kind = "UnionType"
         THEN \E i \in 1..Len(typeNode.types) : isFunctionType(typeNode.types[i])
    ELSE FALSE

\* A reading of the literal's value instead of its text in the source.
extractLiteralText(typeNode, sourceFile) == typeNode.literal.text

extractLiteralValue(typeNode, sourceFile) == typeNode.literal.src

anyThrew(types) == \E i \in 1..Len(types) : types[i].kind = "RangeError"

anyFieldThrew(props) == \E i \in 1..Len(props) : props[i].type.kind = "RangeError"

isNamedProperty(member) == member.kind = "PropertySignature" /\ member.name.text # ""

\* The function type node extractFunctionParameters reads, <<>> when it finds none.
functionNodeOf(typeNode) ==
    IF typeNode.kind = "FunctionType" THEN <<typeNode>>
    ELSE IF typeNode.kind = "ParenthesizedType" /\ typeNode.type.kind = "FunctionType"
         THEN <<typeNode.type>>
    ELSE IF typeNode.kind = "UnionType"
         THEN LET direct(m) == IF m.kind = "FunctionType" THEN <<m>>
                               ELSE IF m.kind = "ParenthesizedType" /\ m.type.kind = "FunctionType"
                                    THEN <<m.type>>
                               ELSE <<>>
                  found == Flatten([i \in 1..Len(typeNode.types) |-> direct(typeNode.types[i])])
              IN IF found = <<>> THEN <<>> ELSE <<found[1]>>
    ELSE <<>>

RECURSIVE buildPropType(_, _, _)
RECURSIVE extractFunctionParameters(_, _, _)
RECURSIVE extractPropertiesFromType(_, _, _)
RECURSIVE extractPropertyFromSignature(_, _, _)
RECURSIVE extractPropertiesFromDeclaration(_, _, _, _)

buildPropType(typeNode, sourceFile, callStack) ==
    LET syntax == typeNode.text
    IN IF typeNode.kind = "LiteralType"
       THEN [kind |-> "constant", syntax |-> syntax,
             value |-> extractLiteralValue(typeNode, sourceFile)]
       ELSE IF typeNode.kind = "TupleType"
       THEN LET types == [i \in 1..Len(typeNode.elements) |->
                             buildPropType(typeNode.elements[i], sourceFile, callStack)]
            IN IF anyThrew(types) THEN RangeError
               ELSE [kind |-> "tuple", syntax |-> syntax, types |-> types]
       ELSE IF typeNode.kind = "UnionType"
       THEN LET types == [i \in 1..Len(typeNode.types) |->
                             buildPropType(typeNode.types[i], sourceFile, callStack)]
            IN IF anyThrew(types) THEN RangeError
               ELSE [kind |-> "union", syntax |-> syntax, types |-> types]
       ELSE IF typeNode.kind = "ArrayType"
       THEN LET elementType == buildPropType(typeNode.elementType, sourceFile, callStack)
            IN IF elementType.kind = "RangeError" THEN RangeError
               ELSE [kind |-> "array", syntax |-> syntax, elementType |-> elementType]
       ELSE IF isFunctionType(typeNode)
       THEN LET parameters == extractFunctionParameters(typeNode, sourceFile, callStack)
            IN IF parameters.threw THEN RangeError
               ELSE [kind |-> "function", syntax |-> syntax, parameters |-> parameters.props]
       ELSE IF typeNode.kind = "TypeLiteral"
       THEN LET properties == extractPropertiesFromType(typeNode, sourceFile, callStack)
            IN IF properties.threw THEN RangeError
               ELSE [kind |-> "object", syntax |-> syntax, properties |-> properties.props]
       ELSE LET typeDecl == IF typeNode.kind = "TypeReference"
                            THEN findTypeDeclaration(sourceFile, typeNode.typeName.text)
                            ELSE Null
                properties == IF typeDecl # Null
                              THEN extractPropertiesFromDeclaration(typeDecl[1], sourceFile,
                                                                    Undefined, callStack)
                              ELSE Ret(<<>>)
            IN IF properties.threw THEN RangeError
               ELSE IF Len(properties.props) > 0
                    THEN [kind |-> "object", syntax |-> syntax, properties |-> properties.props]
                    ELSE [kind |-> "primitive", syntax |-> syntax]

extractFunctionParameters(typeNode, sourceFile, callStack) ==
    LET functionNode == functionNodeOf(typeNode)
    IN IF functionNode = <<>> THEN Ret(<<>>)
       ELSE LET ps == functionNode[1].parameters
                parameters ==
                    [i \in 1..Len(ps) |->
                        [name |-> ps[i].name.text,
                         type |-> IF ps[i].type # <<>>
                                  THEN buildPropType(ps[i].type[1], sourceFile, callStack)
                                  ELSE [kind |-> "primitive", syntax |-> "any"],
                         optional |-> ps[i].questionToken,
                         description |-> Undefined]]
            IN IF anyFieldThrew(parameters) THEN Throw ELSE Ret(parameters)

extractPropertyFromSignature(member, sourceFile, callStack) ==
    LET propType == IF member.type # <<>>
                    THEN buildPropType(member.type[1], sourceFile, callStack)
                    ELSE [kind |-> "primitive", syntax |-> "any"]
        description == extractJSDocComment(member, sourceFile)
    IN [name |-> member.name.text,
        type |-> propType,
        optional |-> member.questionToken,
        description |-> IF description # Undefined /\ description[1] # <<>>
                        THEN description ELSE Undefined]

\* The loops over members of lines 173-177, 279-283 and 286-290.
membersToProps(members, sourceFile, callStack) ==
    LET named == SelectSeq(members, isNamedProperty)
        props == [i \in 1..Len(named) |->
                     extractPropertyFromSignature(named[i], sourceFile, callStack)]
    IN IF anyFieldThrew(props) THEN Throw ELSE Ret(props)

extractPropertiesFromType(typeNode, sourceFile, callStack) ==
    IF typeNode.kind = "TypeLiteral"
    THEN membersToProps(typeNode.members, sourceFile, callStack)
    ELSE IF typeNode.kind = "TypeReference"
    THEN LET typeDecl == findTypeDeclaration(sourceFile, typeNode.typeName.text)
         IN IF typeDecl # Null
            THEN extractPropertiesFromDeclaration(typeDecl[1], sourceFile, Undefined, callStack)
            ELSE Ret(<<>>)
    ELSE Ret(<<>>)

\* A resolution that keeps reading in the file of the reference.
resolveBaseInReferencingFile(typeExpr, sourceFile, typeChecker) ==
    IF typeChecker # Undefined
    THEN LET symbol == resolveSymbol(typeChecker[1], sourceFile, typeExpr.expression.text)
         IN IF symbol # Null /\ isTypeDeclaration(symbol[1].declaration)
            THEN << [declaration |-> symbol[1].declaration, sourceFile |-> sourceFile] >>
            ELSE Null
    ELSE LET baseDecl == findTypeDeclaration(sourceFile, typeExpr.expression.text)
         IN IF baseDecl # Null
            THEN << [declaration |-> baseDecl[1], sourceFile |-> sourceFile] >>
            ELSE Null

\* The declaration an extends reference resolves to, with its file: lines 249-267.
resolveBase(typeExpr, sourceFile, typeChecker) ==
    IF typeChecker # Undefined
    THEN LET symbol == resolveSymbol(typeChecker[1], sourceFile, typeExpr.expression.text)
         IN IF symbol # Null /\ isTypeDeclaration(symbol[1].declaration)
            THEN symbol ELSE Null
    ELSE LET baseDecl == findTypeDeclaration(sourceFile, typeExpr.expression.text)
         IN IF baseDecl # Null
            THEN << [declaration |-> baseDecl[1], sourceFile |-> sourceFile] >>
            ELSE Null

\* An extraction that follows an alias of a named type to its declaration.
extractPropertiesFollowingAlias(decl, sourceFile, typeChecker, callStack) ==
    LET frame == <<decl, sourceFile.fileName, typeChecker # Undefined>>
        stack == callStack \cup {frame}
    IN IF frame \in callStack THEN Throw
       ELSE IF decl.kind = "InterfaceDeclaration"
       THEN LET clauses == SelectSeq(decl.heritageClauses,
                                     LAMBDA h : h.token = "ExtendsKeyword")
                typeExprs == Flatten([i \in 1..Len(clauses) |-> clauses[i].types])
                inherited ==
                    [i \in 1..Len(typeExprs) |->
                        LET base == resolveBase(typeExprs[i], sourceFile, typeChecker)
                        IN IF base # Null
                           THEN extractPropertiesFromDeclaration(
                                    base[1].declaration, base[1].sourceFile, typeChecker, stack)
                           ELSE Ret(<<>>)]
                own == membersToProps(decl.members, sourceFile, stack)
            IN IF own.threw \/ \E i \in 1..Len(inherited) : inherited[i].threw
               THEN Throw
               ELSE Ret(Flatten([i \in 1..Len(inherited) |-> inherited[i].props]) \o own.props)
       ELSE IF decl.kind = "TypeAliasDeclaration" /\ decl.type.kind = "TypeLiteral"
       THEN membersToProps(decl.type.members, sourceFile, stack)
       ELSE IF /\ decl.kind = "TypeAliasDeclaration"
               /\ decl.type.kind = "TypeReference"
               /\ findTypeDeclaration(sourceFile, decl.type.typeName.text) # Null
       THEN extractPropertiesFromDeclaration(
                findTypeDeclaration(sourceFile, decl.type.typeName.text)[1],
                sourceFile, typeChecker, stack)
       ELSE Ret(<<>>)

extractPropertiesFromDeclaration(decl, sourceFile, typeChecker, callStack) ==
    LET frame == <<decl, sourceFile.fileName, typeChecker # Undefined>>
        stack == callStack \cup {frame}
    IN IF frame \in callStack THEN Throw
       ELSE IF decl.kind = "InterfaceDeclaration"
       THEN LET clauses == SelectSeq(decl.heritageClauses,
                                     LAMBDA h : h.token = "ExtendsKeyword")
                typeExprs == Flatten([i \in 1..Len(clauses) |-> clauses[i].types])
                inherited ==
                    [i \in 1..Len(typeExprs) |->
                        LET base == resolveBase(typeExprs[i], sourceFile, typeChecker)
                        IN IF base # Null
                           THEN extractPropertiesFromDeclaration(
                                    base[1].declaration, base[1].sourceFile, typeChecker, stack)
                           ELSE Ret(<<>>)]
                own == membersToProps(decl.members, sourceFile, stack)
            IN IF own.threw \/ \E i \in 1..Len(inherited) : inherited[i].threw
               THEN Throw
               ELSE Ret(Flatten([i \in 1..Len(inherited) |-> inherited[i].props]) \o own.props)
       ELSE IF decl.kind = "TypeAliasDeclaration" /\ decl.type.kind = "TypeLiteral"
       THEN membersToProps(decl.type.members, sourceFile, stack)
       ELSE Ret(<<>>)

\* The first parameter's type of the function found, <<>> when extraction has
\* nothing to read: lines 369-378 and 433-442.
\* A lookup that falls back to the type named Props when the default export
\* gives no parameter type.
firstParamTypeOrProps(sourceFile) ==
    LET func == findDefaultExportFunction(sourceFile)
    IN IF func = Null \/ Len(func[1].parameters) = 0 \/ func[1].parameters[1].type = <<>>
       THEN <<TypeReference("Props")>>
       ELSE func[1].parameters[1].type

firstParamType(sourceFile) ==
    LET func == findDefaultExportFunction(sourceFile)
    IN IF func = Null \/ Len(func[1].parameters) = 0 THEN <<>>
       ELSE func[1].parameters[1].type

extractPropsFromSource(sourceFile) ==
    LET type == firstParamType(sourceFile)
    IN IF type = <<>> THEN Ret(<<>>)
       ELSE extractPropertiesFromType(type[1], sourceFile, {})

extractPropertiesFromTypeNode(typeNode, sourceFile, typeChecker) ==
    IF typeNode.kind = "TypeLiteral"
    THEN extractPropertiesFromType(typeNode, sourceFile, {})
    ELSE IF typeNode.kind = "TypeReference"
    THEN LET local == findTypeDeclaration(sourceFile, typeNode.typeName.text)
             symbol == resolveSymbol(typeChecker, sourceFile, typeNode.typeName.text)
             found == IF local # Null
                      THEN << [declaration |-> local[1], sourceFile |-> sourceFile] >>
                      ELSE IF symbol # Null /\ isTypeDeclaration(symbol[1].declaration)
                           THEN symbol ELSE Null
         IN IF found # Null
            THEN extractPropertiesFromDeclaration(found[1].declaration, found[1].sourceFile,
                                                  <<typeChecker>>, {})
            ELSE Ret(<<>>)
    ELSE Ret(<<>>)

extractPropsFromSourceFile(sourceFile, typeChecker) ==
    LET type == firstParamType(sourceFile)
    IN IF type = <<>> THEN Ret(<<>>)
       ELSE extractPropertiesFromTypeNode(type[1], sourceFile, typeChecker)

\* The result of a call of extractPropsFromFile: the list it resolves to and
\* what it wrote with console.error.
Resolved(props, logged) == [threw |-> FALSE, props |-> props, logged |-> logged]

\* The try/catch of lines 406-429: anything thrown is logged and turned into
\* the empty list.
catchError(props, filePath) ==
    IF props.threw
    THEN Resolved(<<>>, << <<"Error extracting props from " \o filePath \o ":",
                             RangeError.kind>> >>)
    ELSE Resolved(props.props, <<>>)

uncaught(props) == [threw |-> props.threw, props |-> props.props, logged |-> <<>>]

\* An extractPropsFromFile without its try/catch.
extractPropsFromFileUncaught(files, filePath) ==
    IF filePath \notin DOMAIN files THEN Resolved(<<>>, <<>>)
    ELSE uncaught(extractPropsFromSourceFile(files[filePath], [files |-> files]))

\* ts.createProgram over the files on disk, then the extraction with the
\* program's type checker.
extractPropsFromFile(files, filePath) ==
    IF filePath \notin DOMAIN files THEN Resolved(<<>>, <<>>)
    ELSE catchError(extractPropsFromSourceFile(files[filePath], [files |-> files]), filePath)

(***************************************************************************)
(* The inputs: bounded sets of source files.                               *)
(***************************************************************************)
\* The longest list of statements, members, elements or parameters drawn.
MaxLen == 2

SeqsUpTo(S, n) == UNION {[1..k -> S] : k \in 0..n}

Str == KeywordType("string")

Num == KeywordType("number")

char(c) == <<c>>

\* /** Title */
TitleDoc == <<"/", "*", "*", " ", "T", "i", "t", "l", "e", " ", "*", "/">>

TypeNames == {"Props", "Base", "Other"}

\* Files that differ in how they export: two declarations, then up to MaxLen
\* statements that declare, bind or export components.
ParamLists ==
    { <<>>,
      <<Parameter("props", FALSE, <<>>)>>,
      <<Parameter("props", FALSE, <<TypeReference("Props")>>)>>,
      <<Parameter("a", FALSE, <<TypeReference("Other")>>),
        Parameter("b", FALSE, <<TypeReference("Props")>>)>> }

OtherParams == <<Parameter("other", FALSE, <<TypeReference("Other")>>)>>

ComponentStatements ==
    {ExportAssignment(FALSE, ArrowFunction(ps)) : ps \in ParamLists}
    \cup {ExportAssignment(eq, Identifier("Block")) : eq \in BOOLEAN}
    \cup {ExportAssignment(FALSE, CallExpression("memo"))}
    \cup {FunctionDeclaration("Block", mods, ps, <<>>) :
            mods \in {{}, {"export"}, {"export", "default"}}, ps \in ParamLists}
    \cup {FunctionDeclaration("Foo", {"export"}, OtherParams, <<>>)}
    \cup {VariableStatement("Block", ArrowFunction(ps)) : ps \in ParamLists}
    \cup {VariableStatement("Block", CallExpression("memo")),
          VariableStatement("Foo", ArrowFunction(OtherParams)),
          FunctionDeclaration("helper", {}, <<>>,
                              <<FunctionDeclaration("Block", {}, OtherParams, <<>>)>>)}

LocatorDeclarations ==
    << InterfaceDeclaration("Other", <<>>, <<PropertySignature("foo", FALSE, <<Str>>, <<>>)>>),
       InterfaceDeclaration("Props", <<>>,
                            <<PropertySignature("title", FALSE, <<Str>>, <<>>),
                              PropertySignature("enabled", TRUE, <<KeywordType("boolean")>>, <<>>)>>) >>

LocatorFiles ==
    {SourceFile("source.tsx", LocatorDeclarations \o cs) :
        cs \in SeqsUpTo(ComponentStatements, MaxLen)}

\* Files that differ in their declarations: Other, Base and Props, then
\* export default (props: Props) => ...
MemberOptions ==
    { PropertySignature("id", FALSE, <<Str>>, <<>>),
      PropertySignature("title", TRUE, <<Num>>, <<TitleDoc>>),
      PropertySignature("next", TRUE, <<TypeReference("Base")>>, <<>>) }

MemberLists == SeqsUpTo(MemberOptions, MaxLen)

ExtendsOptions(names) ==
    {<<>>} \cup {<<a>> : a \in names} \cup {<<a, b>> : <<a, b>> \in {x \in names \X names : x[1] # x[2]}}

DeclarationsOf(n, bases) ==
    {InterfaceDeclaration(n, exts, ms) : exts \in ExtendsOptions(bases), ms \in MemberLists}
    \cup {TypeAliasDeclaration(n, TypeLiteral(ms)) : ms \in MemberLists}
    \cup {TypeAliasDeclaration(n, TypeReference("Other")),
          TypeAliasDeclaration(n, UnionType(<<Str, Num>>)),
          TypeAliasDeclaration(n, IntersectionType(<<TypeReference("Other"), TypeLiteral(<<>>)>>))}

OtherDeclarations ==
    { InterfaceDeclaration("Other", <<>>,
                           <<PropertySignature("id", FALSE, <<Num>>, <<>>), MethodSignature("render")>>),
      InterfaceDeclaration("Other", <<>>, <<>>) }

DefaultArrow ==
    ExportAssignment(FALSE, ArrowFunction(<<Parameter("props", FALSE, <<TypeReference("Props")>>)>>))

DeclarationFiles ==
    {SourceFile("source.tsx", <<o, b, p, DefaultArrow>>) :
        o \in OtherDeclarations,
        b \in DeclarationsOf("Base", {"Other", "Props"}),
        p \in DeclarationsOf("Props", {"Base", "Other"})}
    \cup
    \* interface Other { owner?: Props } next to every declaration of Props
    {SourceFile("source.tsx",
                << InterfaceDeclaration("Other", <<>>,
                       <<PropertySignature("owner", TRUE, <<TypeReference("Props")>>, <<>>)>>),
                   p, DefaultArrow >>) :
        p \in DeclarationsOf("Props", {"Other"})}

(***************************************************************************)
(* The specification of single-file mode: a file is drawn, and             *)
(* extractPropsFromSource runs on it.                                      *)
(***************************************************************************)
ExtractPropsFromSource ==
    /\ pc = "ready"
    /\ output' = extractPropsFromSource(input)
    /\ pc' = "done"
    /\ UNCHANGED input

NextSource == ExtractPropsFromSource

Init ==
    /\ input \in LocatorFiles \cup DeclarationFiles
    /\ pc = "ready"
    /\ output = Ret(<<>>)

Spec == Init /\ [][NextSource]_vars

(***************************************************************************)
(* Files that differ in one type annotation: interface Props { value: T }. *)
(* A union or a function type is written in parentheses where the grammar  *)
(* needs them.                                                             *)
(***************************************************************************)
Atoms ==
    { Str,
      LiteralType(StringLiteral("'", "active")),
      LiteralType(StringLiteral("\"", "b")),
      LiteralType(NumericLiteral("42")),
      LiteralType(TrueKeyword),
      TypeReference("Base"),
      TypeReference("Props") }

Grouped(t) ==
    IF t.kind \in {"UnionType", "FunctionType"} THEN ParenthesizedType(t) ELSE t

ParameterOptions ==
    { Parameter("x", FALSE, <<Num>>),
      Parameter("e", TRUE, <<TypeReference("Base")>>),
      Parameter("cb", FALSE, <<>>) }

LiteralMemberOptions ==
    { PropertySignature("key", FALSE, <<Str>>, <<>>),
      PropertySignature("base", TRUE, <<TypeReference("Base")>>, <<>>),
      PropertySignature("untyped", FALSE, <<>>, <<>>) }

\* A composite of atoms.
Composites ==
    {TupleType(els) : els \in SeqsUpTo(Atoms, MaxLen)}
    \cup {UnionType(ts) : ts \in SeqsUpTo(Atoms, MaxLen) \ SeqsUpTo(Atoms, 1)}
    \cup {ArrayType(a) : a \in Atoms}
    \cup {ParenthesizedType(a) : a \in Atoms}
    \cup {FunctionType(ps) : ps \in SeqsUpTo(ParameterOptions, MaxLen)}
    \cup {TypeLiteral(ms) : ms \in SeqsUpTo(LiteralMemberOptions, MaxLen)}
    \cup {IntersectionType(<<TypeReference("Base"), TypeReference("Props")>>)}

\* A composite of a composite.
Nested ==
    {ArrayType(Grouped(t)) : t \in Composites}
    \cup {ParenthesizedType(t) : t \in Composites}
    \cup {TupleType(<<t, Str>>) : t \in Composites}
    \cup {UnionType(<<LiteralType(NumericLiteral("42")), Grouped(t)>>) : t \in Composites}
    \cup {ParenthesizedType(ParenthesizedType(FunctionType(ps))) :
            ps \in SeqsUpTo(ParameterOptions, 1)}
    \cup {ParenthesizedType(UnionType(<<Str, ParenthesizedType(FunctionType(ps))>>)) :
            ps \in SeqsUpTo(ParameterOptions, 1)}

TypeNodes == Atoms \cup Composites \cup Nested

BaseDeclaration ==
    InterfaceDeclaration("Base", <<>>, <<PropertySignature("id", FALSE, <<Str>>, <<>>)>>)

ShapeFile(t) ==
    SourceFile("source.tsx",
               << BaseDeclaration,
                  InterfaceDeclaration("Props", <<>>,
                                       <<PropertySignature("value", FALSE, <<t>>, <<>>)>>),
                  DefaultArrow >>)

ShapeFiles == {ShapeFile(t) : t \in TypeNodes}

InitShape ==
    /\ input \in ShapeFiles
    /\ pc = "ready"
    /\ output = Ret(<<>>)

SpecShape == InitShape /\ [][NextSource]_vars

(***************************************************************************)
(* Files that differ in the comments in front of one member:               *)
(* interface Props { <comments> name: string }.                            *)
(***************************************************************************)
\* The longest text between the /* and the */ of a comment drawn.
MaxBody == 6

\* The most comments in front of a member.
MaxComments == 3

BodyAlphabet == {"*", " ", "\n", "a"}

\* /* body */ is one comment when the first */ after its /* is its last two characters.
isOneComment(body) ==
    LET rest == body \o <<"*", "/">>
    IN \A i \in 1..(Len(rest) - 2) : ~(rest[i] = "*" /\ rest[i + 1] = "/")

BlockComments ==
    {<<"/", "*">> \o body \o <<"*", "/">> :
        body \in {b \in SeqsUpTo(BodyAlphabet, MaxBody) : isOneComment(b)}}

MixedComments ==
    { <<"/", "*", "*", " ", "a", " ", "*", "/">>,
      <<"/", "*", "*", " ", "b", " ", "*", "/">>,
      <<"/", "*", "*", " ", "*", "/">>,
      <<"/", "*", " ", "c", " ", "*", "/">>,
      <<"/", "/", " ", "d">> }

CommentLists ==
    {<<c>> : c \in BlockComments} \cup SeqsUpTo(MixedComments, MaxComments)

DocFile(cs) ==
    SourceFile("source.tsx",
               << InterfaceDeclaration("Props", <<>>,
                                       <<PropertySignature("name", FALSE, <<Str>>, cs)>>),
                  DefaultArrow >>)

DocFiles == {DocFile(cs) : cs \in CommentLists}

InitDoc ==
    /\ input \in DocFiles
    /\ pc = "ready"
    /\ output = Ret(<<>>)

SpecDoc == InitDoc /\ [][NextSource]_vars

(***************************************************************************)
(* Whole-program mode: Component.tsx imports BaseProps from ./BaseProps.   *)
(***************************************************************************)
IdDoc == <<"/", "*", "*", " ", "I", "D", " ", "*", "/">>

BaseMemberOptions ==
    { PropertySignature("id", FALSE, <<Str>>, <<IdDoc>>),
      PropertySignature("name", TRUE, <<Str>>, <<>>),
      PropertySignature("owner", FALSE, <<TypeReference("User")>>, <<>>) }

DerivedMemberOptions ==
    { PropertySignature("title", FALSE, <<Str>>, <<TitleDoc>>),
      PropertySignature("id", TRUE, <<Num>>, <<>>),
      PropertySignature("child", TRUE, <<TypeReference("Props")>>, <<>>) }

UserDeclaration(n) ==
    InterfaceDeclaration("User", <<>>, <<PropertySignature(n, FALSE, <<Str>>, <<>>)>>)

LocalDeclaration ==
    InterfaceDeclaration("Local", <<>>, <<PropertySignature("local", FALSE, <<Num>>, <<>>)>>)

DefaultFunction ==
    FunctionDeclaration("Block", {"export", "default"},
                        <<Parameter("props", FALSE, <<TypeReference("Props")>>)>>, <<>>)

BaseFiles ==
    {SourceFile("./BaseProps", us \o <<InterfaceDeclaration("BaseProps", <<>>, ms)>>) :
        us \in {<<>>, <<UserDeclaration("email")>>},
        ms \in SeqsUpTo(BaseMemberOptions, MaxLen)}

ComponentFiles ==
    {SourceFile("Component.tsx",
                <<ImportDeclaration({"BaseProps"}, "./BaseProps")>> \o us
                \o <<LocalDeclaration, InterfaceDeclaration("Props", exts, ms), DefaultFunction>>) :
        us \in {<<>>, <<UserDeclaration("login")>>},
        exts \in { <<"BaseProps">>, <<"BaseProps", "Local">>, <<"Local", "BaseProps">>, <<>> },
        ms \in SeqsUpTo(DerivedMemberOptions, MaxLen)}

Programs ==
    {[files |-> [f \in {"Component.tsx", "./BaseProps"} |->
                    IF f = "Component.tsx" THEN c ELSE b],
      filePath |-> path] :
        c \in ComponentFiles, b \in BaseFiles, path \in {"Component.tsx"}}
    \cup {[files |-> [f \in {"./BaseProps"} |-> b], filePath |-> "Component.tsx"] :
            b \in BaseFiles}

\* Programs of the one file Component.tsx, whose props interface extends a type
\* Local of the same file: an interface, an alias of a type literal, an alias
\* of another interface, or two interfaces that merge.
LocalBases ==
    { <<LocalDeclaration>>,
      <<TypeAliasDeclaration("Local", TypeLiteral(LocalDeclaration.members))>>,
      <<UserDeclaration("login"), TypeAliasDeclaration("Local", TypeReference("User"))>>,
      <<LocalDeclaration, InterfaceDeclaration("Local", <<>>, UserDeclaration("login").members)>> }

LocalPrograms ==
    {[files |-> [f \in {"Component.tsx"} |->
                    SourceFile("Component.tsx",
                               ls \o <<InterfaceDeclaration("Props", <<"Local">>, ms),
                                       FunctionDeclaration("Block", {"export", "default"},
                                                           <<Parameter("props", FALSE,
                                                                       <<TypeReference(n)>>)>>,
                                                           <<>>)>>)],
      filePath |-> "Component.tsx"] :
        ls \in LocalBases, ms \in SeqsUpTo(DerivedMemberOptions, 1), n \in {"Props", "Local"}}

\* Programs in which both files may declare User and Root: BaseProps may
\* extend the Root of its file, and the component's parameter is typed by a
\* Props that extends BaseProps, or by the imported BaseProps itself; the one
\* member of Props is a title or is typed by the imported BaseProps.
ImportPrograms ==
    {[files |-> [f \in {"Component.tsx", "./BaseProps"} |->
        IF f = "Component.tsx"
        THEN SourceFile("Component.tsx",
                 <<ImportDeclaration({"BaseProps"}, "./BaseProps")>> \o cs
                 \o <<InterfaceDeclaration("Props",
                                           IF n = "Props" THEN <<"BaseProps">> ELSE <<>>,
                                           <<own>>),
                      FunctionDeclaration("Block", {"export", "default"},
                                          <<Parameter("props", FALSE, <<TypeReference(n)>>)>>,
                                          <<>>)>>)
        ELSE SourceFile("./BaseProps", bs \o <<InterfaceDeclaration("BaseProps", exts, ms)>>)],
      filePath |-> "Component.tsx"] :
        cs \in SeqsUpTo({UserDeclaration("login"),
                         InterfaceDeclaration("Root", <<>>,
                             <<PropertySignature("other", FALSE, <<Str>>, <<>>)>>)}, 1),
        bs \in SeqsUpTo({UserDeclaration("email"),
                         InterfaceDeclaration("Root", <<>>,
                             <<PropertySignature("root", FALSE, <<Num>>, <<>>)>>)}, 1)
               \cup {<<UserDeclaration("email"),
                       InterfaceDeclaration("Root", <<>>,
                           <<PropertySignature("root", FALSE, <<Num>>, <<>>)>>)>>},
        exts \in {<<>>, <<"Root">>},
        ms \in SeqsUpTo(BaseMemberOptions, 1),
        n \in {"Props", "BaseProps"},
        own \in {PropertySignature("title", FALSE, <<Str>>, <<>>),
                 PropertySignature("base", TRUE, <<TypeReference("BaseProps")>>, <<>>)}}

ExtractPropsFromFile ==
    /\ pc = "ready"
    /\ output' = extractPropsFromFile(input.files, input.filePath)
    /\ pc' = "done"
    /\ UNCHANGED input

NextFile == ExtractPropsFromFile

InitFile ==
    /\ input \in Programs \cup LocalPrograms \cup ImportPrograms
    /\ pc = "ready"
    /\ output = Ret(<<>>)

SpecFile == InitFile /\ [][NextFile]_vars

(***************************************************************************)
(* What the claims speak of, read off the syntax of a file.                *)
(***************************************************************************)
Range(seq) == {seq[i] : i \in 1..Len(seq)}

Nodes(sourceFile) == Range(Walk(sourceFile.statements))

\* The function values the file binds to a name.
BoundFunctions(sourceFile, name) ==
    {n \in Nodes(sourceFile) : n.kind = "FunctionDeclaration" /\ n.name.text = name}
    \cup UNION {{d.initializer[1] : d \in {x \in Range(n.declarations) :
                                            /\ x.name.text = name
                                            /\ x.initializer # <<>>
                                            /\ isFunctionLike(x.initializer[1])}} :
                n \in {x \in Nodes(sourceFile) : x.kind = "VariableStatement"}}

\* The functions the file exports as default: a function declaration marked
\* export default, the function of an export default expression, or a function
\* bound to the identifier an export default names.
DefaultExportedFunctions(sourceFile) ==
    LET assigned == {n.expression : n \in {x \in Nodes(sourceFile) :
                        x.kind = "ExportAssignment" /\ ~x.isExportEquals}}
    IN {n \in Nodes(sourceFile) :
            n.kind = "FunctionDeclaration" /\ {"export", "default"} \subseteq n.modifiers}
       \cup {e \in assigned : isFunctionLike(e)}
       \cup UNION {BoundFunctions(sourceFile, e.text) :
                      e \in {x \in assigned : x.kind = "Identifier"}}

\* The type annotations of their first parameters.
DefaultExportParamTypes(sourceFile) ==
    {f.parameters[1].type[1] :
        f \in {g \in DefaultExportedFunctions(sourceFile) :
                 Len(g.parameters) > 0 /\ g.parameters[1].type # <<>>}}

TypeDeclarations(sourceFile) == {n \in Nodes(sourceFile) : isTypeDeclaration(n)}

\* The names an interface declaration extends.
ExtendedNames(decl) ==
    IF decl.kind = "InterfaceDeclaration"
    THEN UNION {{t.expression.text : t \in Range(h.types)} : h \in Range(decl.heritageClauses)}
    ELSE {}

\* The named property signatures a declaration holds itself.
OwnProperties(decl) ==
    IF decl.kind = "InterfaceDeclaration" THEN SelectSeq(decl.members, isNamedProperty)
    ELSE IF decl.type.kind = "TypeLiteral" THEN SelectSeq(decl.type.members, isNamedProperty)
    ELSE <<>>

\* The type names reached from names through extends clauses.
RECURSIVE ExtendsClosure(_, _)
ExtendsClosure(sourceFile, names) ==
    LET next == names \cup UNION {ExtendedNames(d) :
                    d \in {x \in TypeDeclarations(sourceFile) : x.name.text \in names}}
    IN IF next = names THEN names ELSE ExtendsClosure(sourceFile, next)

\* The property names of the first parameter's type of a default export: of an
\* inline type literal, or of the declarations of its name and of their bases.
ParamTypePropertyNames(sourceFile) ==
    LET types == DefaultExportParamTypes(sourceFile)
        inline == UNION {{m.name.text : m \in Range(SelectSeq(t.members, isNamedProperty))} :
                            t \in {u \in types : u.kind = "TypeLiteral"}}
        names == ExtendsClosure(sourceFile,
                                {t.typeName.text : t \in {u \in types : u.kind = "TypeReference"}})
    IN inline \cup UNION {{m.name.text : m \in Range(OwnProperties(d))} :
                            d \in {x \in TypeDeclarations(sourceFile) : x.name.text \in names}}

\* The declaration the first parameter's type names, <<>> when it names none.
ParamDeclaration(sourceFile) ==
    LET type == firstParamType(sourceFile)
    IN IF type # <<>> /\ type[1].kind = "TypeReference"
       THEN findTypeDeclaration(sourceFile, type[1].typeName.text)
       ELSE Null

\* No declaration of the file extends, directly or through others, itself.
NoExtendsCycle(sourceFile) ==
    \A d \in TypeDeclarations(sourceFile) :
        d.name.text \notin ExtendsClosure(sourceFile, ExtendedNames(d))

(***************************************************************************)
(* C1.  extractPropsFromSource returns a field list for every file and     *)
(* never raises.  It raises on a file whose declaration reaches itself.    *)
(***************************************************************************)
C1_NeverRaises == pc = "done" => ~output.threw

(***************************************************************************)
(* C2.  The result is the empty list whenever the file exports no function *)
(* as default, or the function it exports has no parameter, or its first   *)
(* parameter has no type annotation, whatever types the file declares.     *)
(***************************************************************************)
NoTypedDefaultExport(sourceFile) == DefaultExportParamTypes(sourceFile) = {}

FieldOf(member, sourceFile) ==
    [name |-> member.name.text,
     type |-> IF member.type = <<>> THEN [kind |-> "primitive", syntax |-> "any"]
              ELSE buildPropType(member.type[1], sourceFile, {}),
     optional |-> member.questionToken]

SameField(prop, field) ==
    /\ prop.name = field.name
    /\ prop.type = field.type
    /\ prop.optional = field.optional

C3_OneFieldPerPropertySignature ==
    (/\ pc = "done"
     /\ ParamDeclaration(input) # Null
     /\ ExtendedNames(ParamDeclaration(input)[1]) = {})
    => LET members == OwnProperties(ParamDeclaration(input)[1])
       IN /\ ~output.threw
          /\ Len(output.props) = Len(members)
          /\ \A i \in 1..Len(members) :
                SameField(output.props[i], FieldOf(members[i], input))

\* The same, of the files whose extraction returns.
C3_WhenReturned ==
    (/\ pc = "done"
     /\ ~output.threw
     /\ ParamDeclaration(input) # Null
     /\ ExtendedNames(ParamDeclaration(input)[1]) = {})
    => LET members == OwnProperties(ParamDeclaration(input)[1])
       IN /\ Len(output.props) = Len(members)
          /\ \A i \in 1..Len(members) :
                SameField(output.props[i], FieldOf(members[i], input))

FieldsOfName(sourceFile, name) ==
    LET decl == findTypeDeclaration(sourceFile, name)
    IN IF decl = Null THEN Ret(<<>>)
       ELSE extractPropertiesFromDeclaration(decl[1], sourceFile, Undefined, {})

ExtendedSeq(decl) ==
    Flatten([i \in 1..Len(decl.heritageClauses) |->
                [j \in 1..Len(decl.heritageClauses[i].types) |->
                    decl.heritageClauses[i].types[j].expression.text]])

InheritedThenOwn(sourceFile, decl, props) ==
    LET bases == ExtendedSeq(decl)
        inherited == Flatten([i \in 1..Len(bases) |-> FieldsOfName(sourceFile, bases[i]).props])
        members == OwnProperties(decl)
    IN /\ Len(props) = Len(inherited) + Len(members)
       /\ SubSeq(props, 1, Len(inherited)) = inherited
       /\ \A i \in 1..Len(members) :
             SameField(props[Len(inherited) + i], FieldOf(members[i], sourceFile))

C5_InheritedFieldsFirst ==
    (/\ pc = "done"
     /\ ParamDeclaration(input) # Null
     /\ ExtendedNames(ParamDeclaration(input)[1]) # {}
     /\ NoExtendsCycle(input))
    => /\ ~output.threw
       /\ InheritedThenOwn(input, ParamDeclaration(input)[1], output.props)

\* The same, of the files whose extraction returns.
C5_WhenReturned ==
    (/\ pc = "done"
     /\ ~output.threw
     /\ ParamDeclaration(input) # Null
     /\ ExtendedNames(ParamDeclaration(input)[1]) # {})
    => InheritedThenOwn(input, ParamDeclaration(input)[1], output.props)

(***************************************************************************)
(* C6.  In whole-program mode, when the props interface extends an         *)
(* interface imported from another file, the result holds the fields of    *)
(* the base interface before the derived interface's own fields.           *)
(***************************************************************************)
ComponentOf(program) == program.files[program.filePath]

PropsOf(program) == findTypeDeclaration(ComponentOf(program), "Props")[1]

ImportedBase(program) ==
    findTypeDeclaration(program.files["./BaseProps"], "BaseProps")[1]

ExtendsImportedBase(program) ==
    /\ program.filePath \in DOMAIN program.files
    /\ "BaseProps" \in ExtendedNames(PropsOf(program))

SameHeader(prop, member, sourceFile) ==
    /\ prop.name = member.name.text
    /\ prop.optional = member.questionToken
    /\ prop.description = extractPropertyFromSignature(member, sourceFile, {}).description

\* props holds the fields of the members from position k + 1 on.
HoldsAt(props, k, members, sourceFile) ==
    /\ k + Len(members) <= Len(props)
    /\ \A i \in 1..Len(members) : SameHeader(props[k + i], members[i], sourceFile)

BaseBeforeOwn(program, props) ==
    LET base == OwnProperties(ImportedBase(program))
        own == OwnProperties(PropsOf(program))
    IN /\ Len(props) >= Len(base) + Len(own)
       /\ HoldsAt(props, Len(props) - Len(own), own, ComponentOf(program))
       /\ \E k \in 0..(Len(props) - Len(own) - Len(base)) :
             HoldsAt(props, k, base, program.files["./BaseProps"])

C6_ImportedBaseFieldsFirst ==
    (pc = "done" /\ ExtendsImportedBase(input)) => BaseBeforeOwn(input, output.props)

\* The same, of the programs whose props interface has no member typed Props.
C6_WithoutSelfReference ==
    (/\ pc = "done"
     /\ ExtendsImportedBase(input)
     /\ \A m \in Range(OwnProperties(PropsOf(input))) : m.type # <<TypeReference("Props")>>)
    => BaseBeforeOwn(input, output.props)

(***************************************************************************)
(* C7.  A literal type resolves to a constant shape whose value is the     *)
(* literal's exact source text: a string literal keeps its quotes, a       *)
(* numeric or boolean literal is its written form.                         *)
(***************************************************************************)
\* The annotation of the one member of the props declaration.
Annotation(sourceFile) == OwnProperties(ParamDeclaration(sourceFile)[1])[1].type[1]

\* The annotations of the parameters or members that have one.
AnnotationsOf(nodes) ==
    {n.type[1] : n \in {x \in Range(nodes) : x.kind # "MethodSignature" /\ x.type # <<>>}}

\* The type nodes written in a type annotation, itself included.
RECURSIVE TypeNodesWithin(_)
TypeNodesWithin(t) ==
    {t} \cup
    (CASE t.kind = "TupleType" -> UNION {TypeNodesWithin(e) : e \in Range(t.elements)}
       [] t.kind \in {"UnionType", "IntersectionType"} ->
            UNION {TypeNodesWithin(e) : e \in Range(t.types)}
       [] t.kind = "ArrayType" -> TypeNodesWithin(t.elementType)
       [] t.kind = "ParenthesizedType" -> TypeNodesWithin(t.type)
       [] t.kind = "FunctionType" -> UNION {TypeNodesWithin(e) : e \in AnnotationsOf(t.parameters)}
       [] t.kind = "TypeLiteral" -> UNION {TypeNodesWithin(e) : e \in AnnotationsOf(t.members)}
       [] OTHER -> {})

IsConstantOf(shape, literal) ==
    /\ shape.kind = "constant"
    /\ IF literal.kind = "StringLiteral"
       THEN \E q \in {"'", "\""} : shape.value = q \o literal.text \o q
       ELSE shape.value = literal.text

\* The shape of every literal written at a position of the annotation that a
\* tuple, union or array shape mirrors is the constant of that literal.
RECURSIVE LiteralsKept(_, _)
LiteralsKept(t, shape) ==
    CASE t.kind = "LiteralType" -> IsConstantOf(shape, t.literal)
      [] t.kind = "TupleType" /\ shape.kind = "tuple" /\ Len(shape.types) = Len(t.elements) ->
            \A i \in 1..Len(t.elements) : LiteralsKept(t.elements[i], shape.types[i])
      [] t.kind = "UnionType" /\ shape.kind = "union" /\ Len(shape.types) = Len(t.types) ->
            \A i \in 1..Len(t.types) : LiteralsKept(t.types[i], shape.types[i])
      [] t.kind = "ArrayType" /\ shape.kind = "array" ->
            LiteralsKept(t.elementType, shape.elementType)
      [] OTHER -> TRUE

C7_LiteralKeepsSourceText ==
    pc = "done" =>
        /\ \A t \in {n \in TypeNodesWithin(Annotation(input)) : n.kind = "LiteralType"} :
              IsConstantOf(buildPropType(t, input, {}), t.literal)
        /\ ~output.threw => LiteralsKept(Annotation(input), output.props[1].type)

\* A field annotated 42 | "b"[] has been extracted: the number as written, the
\* string with its double quotes.
C7_Witness ==
    /\ pc = "done"
    /\ ~output.threw
    /\ Annotation(input) = UnionType(<<LiteralType(NumericLiteral("42")),
                                       ArrayType(LiteralType(StringLiteral("\"", "b")))>>)
    /\ output.props[1].type.kind = "union"
    /\ output.props[1].type.types[1] = [kind |-> "constant", syntax |-> "42", value |-> "42"]
    /\ output.props[1].type.types[2].kind = "array"
    /\ output.props[1].type.types[2].elementType =
          [kind |-> "constant", syntax |-> "\"b\"", value |-> "\"b\""]

(***************************************************************************)
(* C8.  An annotation T[] resolves to an array shape of the shape of T,    *)
(* [A, B] to a tuple shape and A | B to a union shape whose element shapes *)
(* are those of the elements, in the same order and number.                *)
(***************************************************************************)
RECURSIVE Mirrors(_, _)
Mirrors(t, shape) ==
    CASE t.kind = "ArrayType" ->
            shape.kind = "array" /\ Mirrors(t.elementType, shape.elementType)
      [] t.kind = "TupleType" ->
            /\ shape.kind = "tuple"
            /\ Len(shape.types) = Len(t.elements)
            /\ \A i \in 1..Len(t.elements) : Mirrors(t.elements[i], shape.types[i])
      [] t.kind = "UnionType" ->
            /\ shape.kind = "union"
            /\ Len(shape.types) = Len(t.types)
            /\ \A i \in 1..Len(t.types) : Mirrors(t.types[i], shape.types[i])
      [] OTHER -> TRUE

IsComposite(t) == t.kind \in {"ArrayType", "TupleType", "UnionType"}

C8_CompositeMirrorsAnnotation ==
    (pc = "done" /\ IsComposite(Annotation(input)))
    => /\ ~output.threw
       /\ Len(output.props) = 1
       /\ Mirrors(Annotation(input), output.props[1].type)

\* The same, of the files whose extraction returns.
C8_WhenReturned ==
    (pc = "done" /\ ~output.threw /\ IsComposite(Annotation(input)))
    => /\ Len(output.props) = 1
       /\ Mirrors(Annotation(input), output.props[1].type)

(***************************************************************************)
(* C9.  A field's description is taken from the last of its leading        *)
(* comments that opens with /**: it is the description the field has when  *)
(* that comment is its only one.  Line comments and plain block comments   *)
(* are ignored, and a field without a /** comment has no description.      *)
(***************************************************************************)
LeadingComments(sourceFile) == OwnProperties(ParamDeclaration(sourceFile)[1])[1].comments

IsDocComment(text) == Len(text) >= 3 /\ SubSeq(text, 1, 3) = <<"/", "*", "*">>

DocComments(sourceFile) == SelectSeq(LeadingComments(sourceFile), IsDocComment)

OneField(result) == ~result.threw /\ Len(result.props) = 1

C9_LastDocCommentWins ==
    pc = "done" =>
        /\ OneField(output)
        /\ LET docs == DocComments(input)
           IN output.props[1].description =
                 IF docs = <<>> THEN Undefined
                 ELSE extractPropsFromSource(DocFile(<<docs[Len(docs)]>>)).props[1].description

\* A field behind two differing /** comments and a line comment has been
\* extracted with the description of the second.
C9_Witness ==
    /\ pc = "done"
    /\ Len(LeadingComments(input)) = 3
    /\ IsDocComment(LeadingComments(input)[1])
    /\ IsDocComment(LeadingComments(input)[2])
    /\ ~IsDocComment(LeadingComments(input)[3])
    /\ LeadingComments(input)[1] # LeadingComments(input)[2]
    /\ output.props[1].description = <<<<"b">>>>

(***************************************************************************)
(* C10.  The description is the text of the /** comment with its           *)
(* delimiters removed, each line stripped of its leading asterisk and one  *)
(* following space, empty lines dropped and the remaining lines joined by  *)
(* a single space; a field never carries an empty description.             *)
(***************************************************************************)
WithoutDelimiters(text) ==
    LET opened == SubSeq(text, 4, Len(text))
    IN IF Len(opened) >= 2 /\ SubSeq(opened, Len(opened) - 1, Len(opened)) = <<"*", "/">>
       THEN SubSeq(opened, 1, Len(opened) - 2)
       ELSE opened

WithoutAsterisk(line) ==
    IF line # <<>> /\ line[1] = "*"
    THEN IF Len(line) >= 2 /\ line[2] = " " THEN SubSeq(line, 3, Len(line)) ELSE Tail(line)
    ELSE line

NonEmpty(line) == line # <<>>

\* The description as the sentence gives it.
StatedDescription(text) ==
    LET lines == split(WithoutDelimiters(text))
    IN join(SelectSeq([i \in 1..Len(lines) |-> WithoutAsterisk(lines[i])], NonEmpty))

\* The description when each line is trimmed before the asterisk is stripped
\* and the joined text is trimmed.
TrimmedDescription(text) ==
    LET lines == split(WithoutDelimiters(text))
    IN trim(join(SelectSeq([i \in 1..Len(lines) |-> WithoutAsterisk(trim(lines[i]))], NonEmpty)))

Described(text) == IF text = <<>> THEN Undefined ELSE <<text>>

\* C10 as stated.
C10_DescriptionAsStated ==
    (pc = "done" /\ DocComments(input) # <<>>)
    => /\ OneField(output)
       /\ output.props[1].description =
             Described(StatedDescription(DocComments(input)[Len(DocComments(input))]))

\* C10 amended: the description is the text of the /** comment with its
\* delimiters removed, each line trimmed of surrounding whitespace and then
\* stripped of its leading asterisk and one following space, empty lines
\* dropped, the remaining lines joined by a single space and the result
\* trimmed; a field never carries an empty description.
C10_DescriptionTrimmed ==
    (pc = "done" /\ DocComments(input) # <<>>)
    => /\ OneField(output)
       /\ output.props[1].description =
             Described(TrimmedDescription(DocComments(input)[Len(DocComments(input))]))
       /\ output.props[1].description # <<<<>>>>

\* A field behind a /** comment of two lines, the second with an asterisk,
\* has been extracted.
C10_Witness ==
    /\ pc = "done"
    /\ LeadingComments(input) = << <<"/", "*", "*", "a", "\n", "*", " ", "a", "*", "/">> >>
    /\ output.props[1].description = << <<"a", " ", "a">> >>

(***************************************************************************)
(* The discriminated-union detector, applied by the props editor to the    *)
(* shape of a prop.  A union is discriminated by the first field of its    *)
(* first member that every member has as a constant, with values that      *)
(* differ from member to member.                                           *)
(***************************************************************************)
PrimitiveShape(syntax) == [kind |-> "primitive", syntax |-> syntax]

ConstantShape(value) == [kind |-> "constant", syntax |-> value, value |-> value]

ObjectShape(syntax, properties) ==
    [kind |-> "object", syntax |-> syntax, properties |-> properties]

UnionShape(types) ==
    [kind |-> "union", syntax |-> Join([i \in 1..Len(types) |-> types[i].syntax], " | "),
     types |-> types]

PropDefinition(name, type) ==
    [name |-> name, type |-> type, optional |-> FALSE, description |-> Undefined]

\* The properties of the member named name, in order.
propertiesNamed(member, name) ==
    SelectSeq(member.properties, LAMBDA prop : prop.name = name)

\* Every member has the field as a constant.
isConstantInAll(types, name) ==
    \A i \in 1..Len(types) :
        /\ propertiesNamed(types[i], name) # <<>>
        /\ propertiesNamed(types[i], name)[1].type.kind = "constant"

discriminatorValueOf(member, name) == propertiesNamed(member, name)[1].type.value

\* A detector that does not compare the values of the members.
getDiscriminatedUnionInfoByName(propType) ==
    IF propType.kind # "union" THEN Null
    ELSE IF \E i \in 1..Len(propType.types) : propType.types[i].kind # "object" THEN Null
    ELSE LET first == propType.types[1].properties
             found == SelectSeq(first, LAMBDA prop : isConstantInAll(propType.types, prop.name))
         IN IF found = <<>> THEN Null
            ELSE << [discriminator |-> found[1].name,
                     cases |-> [i \in 1..Len(propType.types) |->
                                  [discriminatorValue |->
                                       discriminatorValueOf(propType.types[i], found[1].name),
                                   properties |-> propType.types[i].properties]]] >>

getDiscriminatedUnionInfo(propType) ==
    IF propType.kind # "union" THEN Null
    ELSE IF \E i \in 1..Len(propType.types) : propType.types[i].kind # "object" THEN Null
    ELSE LET types == propType.types
             distinct(name) ==
                 \A i, j \in 1..Len(types) :
                     i # j => discriminatorValueOf(types[i], name) # discriminatorValueOf(types[j], name)
             found == SelectSeq(types[1].properties,
                                LAMBDA prop : isConstantInAll(types, prop.name) /\ distinct(prop.name))
         IN IF found = <<>> THEN Null
            ELSE << [discriminator |-> found[1].name,
                     cases |-> [i \in 1..Len(types) |->
                                  [discriminatorValue |-> discriminatorValueOf(types[i], found[1].name),
                                   properties |-> types[i].properties]]] >>

\* The most members of a union drawn.
MaxMembers == 3

MemberShapes ==
    { ObjectShape("{ kind: 'circle'; radius: number }",
                  << PropDefinition("kind", ConstantShape("'circle'")),
                     PropDefinition("radius", PrimitiveShape("number")) >>),
      ObjectShape("{ kind: 'square'; side: number }",
                  << PropDefinition("kind", ConstantShape("'square'")),
                     PropDefinition("side", PrimitiveShape("number")) >>),
      ObjectShape("{ radius: number; kind: 'circle' }",
                  << PropDefinition("radius", PrimitiveShape("number")),
                     PropDefinition("kind", ConstantShape("'circle'")) >>),
      ObjectShape("{ kind: string }",
                  << PropDefinition("kind", PrimitiveShape("string")) >>),
      ObjectShape("{ tag: 'a'; kind: 'square' }",
                  << PropDefinition("tag", ConstantShape("'a'")),
                     PropDefinition("kind", ConstantShape("'square'")) >>),
      ObjectShape("{ tag: 'b'; kind: 'square' }",
                  << PropDefinition("tag", ConstantShape("'b'")),
                     PropDefinition("kind", ConstantShape("'square'")) >>),
      ObjectShape("{}", <<>>),
      PrimitiveShape("string"),
      ConstantShape("'circle'") }

\* Unions of two members and more, and the members on their own.
PropTypes ==
    {UnionShape(types) : types \in SeqsUpTo(MemberShapes, MaxMembers) \ SeqsUpTo(MemberShapes, 1)}
    \cup MemberShapes

GetDiscriminatedUnionInfo ==
    /\ pc = "ready"
    /\ output' = getDiscriminatedUnionInfo(input)
    /\ pc' = "done"
    /\ UNCHANGED input

NextUnion == GetDiscriminatedUnionInfo

InitUnion ==
    /\ input \in PropTypes
    /\ pc = "ready"
    /\ output = Null

SpecUnion == InitUnion /\ [][NextUnion]_vars

(***************************************************************************)
(* C11.  getDiscriminatedUnionInfo returns a result for a union shape      *)
(* exactly when every member is an object shape and some field name is a   *)
(* constant in every member with pairwise distinct values; the result      *)
(* names such a field and has one case per member, in member order, keyed  *)
(* by the member's value and listing the member's fields.                  *)
(***************************************************************************)
FieldNames(types) ==
    UNION {{prop.name : prop \in Range(types[i].properties)} : i \in 1..Len(types)}

\* The field is in every member, as a constant, and no two members agree on it.
Discriminates(types, name) ==
    /\ \A i \in 1..Len(types) :
          \E prop \in Range(types[i].properties) : prop.name = name /\ prop.type.kind = "constant"
    /\ \A i, j \in 1..Len(types) :
          i # j => \A p \in Range(types[i].properties), q \in Range(types[j].properties) :
                      (p.name = name /\ q.name = name) => p.type.value # q.type.value

AllObjects(types) == \A i \in 1..Len(types) : types[i].kind = "object"

C11_DiscriminatedExactly ==
    (pc = "done" /\ input.kind = "union") =>
        LET types == input.types
            names == IF AllObjects(types)
                     THEN {n \in FieldNames(types) : Discriminates(types, n)}
                     ELSE {}
        IN /\ output # Null <=> names # {}
           /\ output # Null =>
                 /\ output[1].discriminator \in names
                 /\ Len(output[1].cases) = Len(types)
                 /\ \A i \in 1..Len(types) :
                       /\ output[1].cases[i].properties = types[i].properties
                       /\ \E prop \in Range(types[i].properties) :
                             /\ prop.name = output[1].discriminator
                             /\ prop.type.value = output[1].cases[i].discriminatorValue

\* The union of a circle and a square has been found discriminated by kind.
C11_Witness ==
    /\ pc = "done"
    /\ input.kind = "union"
    /\ Len(input.types) = 2
    /\ output # Null
    /\ output[1].discriminator = "kind"
    /\ output[1].cases[1].discriminatorValue = "'circle'"
    /\ output[1].cases[2].discriminatorValue = "'square'"
    /\ Len(output[1].cases[1].properties) = 2

(***************************************************************************)
(* C12.  extractPropsFromFile never rejects: it resolves to the empty list *)
(* when the program has no source file for the path, and when extraction   *)
(* throws (the unbounded recursion) it logs the error and resolves to the  *)
(* empty list.                                                             *)
(***************************************************************************)
ExtractionThrows(program) ==
    /\ program.filePath \in DOMAIN program.files
    /\ extractPropsFromSourceFile(ComponentOf(program), [files |-> program.files]).threw

C12_NeverRejects ==
    pc = "done" =>
        /\ ~output.threw
        /\ input.filePath \notin DOMAIN input.files
              => output.props = <<>> /\ output.logged = <<>>
        /\ ExtractionThrows(input)
              => output.props = <<>> /\ Len(output.logged) = 1
        /\ (input.filePath \in DOMAIN input.files /\ ~ExtractionThrows(input))
              => output.logged = <<>>

\* A program whose props interface has a member typed by the interface itself
\* has been extracted: the overflow was logged and the list is empty.
C12_Witness ==
    /\ pc = "done"
    /\ input.filePath \in DOMAIN input.files
    /\ \E m \in Range(OwnProperties(PropsOf(input))) : m.type = <<TypeReference("Props")>>
    /\ output.props = <<>>
    /\ output.logged = << <<"Error extracting props from Component.tsx:", "RangeError">> >>

(***************************************************************************)
(* README metadata: parseFrontmatter, extractMarkdownMetadata and          *)
(* parseReadmeMetadata, on the text of a README as a sequence of           *)
(* characters.                                                             *)
(***************************************************************************)
\* line.indexOf(c), counted from 0; -1 is modelled as Len(line).
RECURSIVE indexOf(_, _)
indexOf(line, c) ==
    IF line = <<>> \/ line[1] = c THEN 0 ELSE 1 + indexOf(Tail(line), c)

AllWhitespace(s, from, to) == \A i \in from..to : s[i] \in Whitespace

\* The match of /^---\s*\n([\s\S]*?)\n---\s*\n([\s\S]*)$/: \s* takes the most it
\* can, the first group the least.  e1 and e2 are the last characters of the two
\* \s*, s is the line break in front of the closing ---.
frontmatterMatch(content) ==
    LET n == Len(content)
        closings(e1) ==
            {s \in (e1 + 2)..(n - 4) :
                /\ SubSeq(content, s, s + 3) = <<"\n", "-", "-", "-">>
                /\ \E e2 \in (s + 3)..(n - 1) :
                      AllWhitespace(content, s + 4, e2) /\ content[e2 + 1] = "\n"}
        openings == {e1 \in 3..(n - 1) :
                        /\ AllWhitespace(content, 4, e1)
                        /\ content[e1 + 1] = "\n"
                        /\ closings(e1) # {}}
    IN IF ~startsWith(content, <<"-", "-", "-">>) \/ openings = {} THEN Null
       ELSE LET e1 == CHOOSE e \in openings : \A o \in openings : o <= e
                s == CHOOSE c \in closings(e1) : \A o \in closings(e1) : c <= o
                e2 == CHOOSE e \in (s + 3)..(n - 1) :
                         /\ AllWhitespace(content, s + 4, e) /\ content[e + 1] = "\n"
                         /\ \A o \in (e + 1)..(n - 1) :
                               ~(AllWhitespace(content, s + 4, o) /\ content[o + 1] = "\n")
            IN << [text |-> SubSeq(content, e1 + 2, s - 1),
                   content |-> SubSeq(content, e2 + 2, n)] >>

\* value.replace(/^["']|["']$/g, '')
stripQuotes(value) ==
    LET quotes == {"\"", "'"}
        front == IF value # <<>> /\ value[1] \in quotes THEN Tail(value) ELSE value
    IN IF front # <<>> /\ front[Len(front)] \in quotes
       THEN SubSeq(front, 1, Len(front) - 1) ELSE front

\* The frontmatter is the sequence of the <<key, value>> assigned, in order.
parseFrontmatter(content) ==
    LET match == frontmatterMatch(content)
    IN IF match = Null THEN [frontmatter |-> <<>>, content |-> content]
       ELSE LET lines == SelectSeq(split(match[1].text),
                                   LAMBDA line : 0 < indexOf(line, ":")
                                                 /\ indexOf(line, ":") < Len(line))
            IN [frontmatter |->
                    [i \in 1..Len(lines) |->
                        << trim(SubSeq(lines[i], 1, indexOf(lines[i], ":"))),
                           stripQuotes(trim(SubSeq(lines[i], indexOf(lines[i], ":") + 2,
                                                   Len(lines[i])))) >>],
                content |-> match[1].content]

\* frontmatter[key]: the value assigned last, <<>> when none was.
valueOf(frontmatter, key) ==
    LET assigned == SelectSeq(frontmatter, LAMBDA pair : pair[1] = key)
    IN IF assigned = <<>> THEN Undefined ELSE <<assigned[Len(assigned)][2]>>

\* line.replace(/^#+\s*/, '')
RECURSIVE stripHashes(_)
stripHashes(line) ==
    IF line # <<>> /\ line[1] = "#" THEN stripHashes(Tail(line)) ELSE trimStart(line)

\* A scan that takes the first non-empty line after the heading whatever it is.
extractMarkdownMetadataAnyLine(content) ==
    LET lines == split(trim(content))
        trimmed == [i \in 1..Len(lines) |-> trim(lines[i])]
        headings == {i \in 1..Len(lines) : startsWith(trimmed[i], <<"#">>)}
    IN IF headings = {} THEN [name |-> Undefined, description |-> Undefined]
       ELSE LET i == CHOOSE h \in headings : \A o \in headings : h <= o
                after == {j \in (i + 1)..Len(lines) : trimmed[j] # <<>>}
            IN [name |-> <<trim(stripHashes(trimmed[i]))>>,
                description |->
                    IF after = {} THEN Undefined
                    ELSE <<trimmed[CHOOSE j \in after : \A o \in after : j <= o]>>]

extractMarkdownMetadata(content) ==
    LET lines == split(trim(content))
        trimmed == [i \in 1..Len(lines) |-> trim(lines[i])]
        headings == {i \in 1..Len(lines) : startsWith(trimmed[i], <<"#">>)}
    IN IF headings = {} THEN [name |-> Undefined, description |-> Undefined]
       ELSE LET i == CHOOSE h \in headings : \A o \in headings : h <= o
                after == {j \in (i + 1)..Len(lines) : trimmed[j] # <<>>}
                j == CHOOSE k \in after : \A o \in after : k <= o
            IN [name |-> <<trim(stripHashes(trimmed[i]))>>,
                description |->
                    IF after = {} \/ startsWith(trimmed[j], <<"#">>) THEN Undefined
                    ELSE <<trimmed[j]>>]

\* The keys read from the frontmatter.
NAME == <<"n", "a", "m", "e">>

DESCRIPTION == <<"d", "e", "s", "c", "r", "i", "p", "t", "i", "o", "n">>

\* value || other of two optional strings: the empty string is falsy.
orElse(value, other) == IF value # Undefined /\ value[1] # <<>> THEN value ELSE other

\* A parseReadmeMetadata that lets the body override the frontmatter.
parseReadmeMetadataBodyFirst(readme) ==
    IF readme.kind # "file" THEN [name |-> Undefined, description |-> Undefined]
    ELSE LET parsed == parseFrontmatter(readme.content)
             markdown == extractMarkdownMetadata(parsed.content)
         IN [name |-> orElse(orElse(markdown.name, valueOf(parsed.frontmatter, NAME)), Undefined),
             description |-> orElse(orElse(markdown.description,
                                           valueOf(parsed.frontmatter, DESCRIPTION)), Undefined)]

\* readme is the README.md of the directory: missing, unreadable, or a file
\* with its content.  A key the result does not have is <<>>.
parseReadmeMetadata(readme) ==
    IF readme.kind # "file" THEN [name |-> Undefined, description |-> Undefined]
    ELSE LET parsed == parseFrontmatter(readme.content)
             name == valueOf(parsed.frontmatter, NAME)
             description == valueOf(parsed.frontmatter, DESCRIPTION)
             missing == orElse(name, Undefined) = Undefined
                        \/ orElse(description, Undefined) = Undefined
             markdown == IF missing THEN extractMarkdownMetadata(parsed.content)
                         ELSE [name |-> Undefined, description |-> Undefined]
         IN [name |-> orElse(orElse(name, markdown.name), Undefined),
             description |-> orElse(orElse(description, markdown.description), Undefined)]

\* The most lines of the body of a README drawn.
MaxLines == 3

\* A README without frontmatter, with frontmatter of one or both keys, plain or
\* quoted or empty, empty frontmatter, frontmatter that is not closed, spaces
\* after the dashes and a key assigned twice, and a closing --- that ends the file.
Frontmatters ==
    { <<>>,
      <<"-", "-", "-", "\n", "n", "a", "m", "e", ":", " ", "A", "\n", "d", "e", "s", "c", "r", "i", "p", "t", "i", "o", "n", ":", " ", "D", "\n", "-", "-", "-", "\n">>,
      <<"-", "-", "-", "\n", "n", "a", "m", "e", ":", " ", "A", "\n", "-", "-", "-", "\n">>,
      <<"-", "-", "-", "\n", "d", "e", "s", "c", "r", "i", "p", "t", "i", "o", "n", ":", " ", "D", "\n", "-", "-", "-", "\n">>,
      <<"-", "-", "-", "\n", "n", "a", "m", "e", ":", " ", "\"", "A", "\"", "\n", "-", "-", "-", "\n">>,
      <<"-", "-", "-", "\n", "n", "a", "m", "e", ":", "\n", "d", "e", "s", "c", "r", "i", "p", "t", "i", "o", "n", ":", " ", "'", "D", "'", "\n", "-", "-", "-", "\n">>,
      <<"-", "-", "-", "\n", "\n", "-", "-", "-", "\n", "\n">>,
      <<"-", "-", "-", "\n", "n", "a", "m", "e", ":", " ", "A", "\n">>,
      <<"-", "-", "-", " ", " ", "\n", "n", "a", "m", "e", ":", " ", "A", "\n", "n", "a", "m", "e", ":", " ", "B", "\n", "-", "-", "-", " ", " ", "\n", "\n">>,
      <<"-", "-", "-", "\n", "n", "a", "m", "e", ":", " ", "A", "\n", "-", "-", "-">> }

\* Headings of two levels, a bare #, a # without space, an empty line and
\* paragraphs.
BodyLines ==
    { <<"#", " ", "H">>,
      <<"#", "#", " ", " ", "S", " ">>,
      <<"#">>,
      <<"#", "T">>,
      <<>>,
      <<"P">>,
      <<" ", "Q", " ">> }

Readmes ==
    { [kind |-> "missing"], [kind |-> "unreadable"] }
    \cup { [kind |-> "file",
            content |-> f \o Flatten([i \in 1..Len(ls) |->
                                         IF i = 1 THEN ls[i] ELSE <<"\n">> \o ls[i]])] :
              f \in Frontmatters, ls \in SeqsUpTo(BodyLines, MaxLines) }

ParseReadmeMetadata ==
    /\ pc = "ready"
    /\ output' = parseReadmeMetadata(input)
    /\ pc' = "parsed"
    /\ UNCHANGED input

ExtractMarkdownMetadata ==
    /\ pc = "ready"
    /\ input.kind = "file"
    /\ output' = extractMarkdownMetadata(input.content)
    /\ pc' = "extracted"
    /\ UNCHANGED input

InitReadme ==
    /\ input \in Readmes
    /\ pc = "ready"
    /\ output = [name |-> Undefined, description |-> Undefined]

SpecReadme == InitReadme /\ [][ParseReadmeMetadata \/ ExtractMarkdownMetadata]_vars

(***************************************************************************)
(* C13.  parseReadmeMetadata takes name and description each from the      *)
(* frontmatter when the key is there with a non-empty value, and otherwise *)
(* from the body after the frontmatter (first heading, first paragraph     *)
(* after it); the body never overrides a frontmatter value; a missing      *)
(* README or a failed read yields the empty metadata.                      *)
(***************************************************************************)
NonEmptyValue(value) == value # Undefined /\ value[1] # <<>>

FromFrontmatterElseBody(inFrontmatter, inBody) ==
    IF NonEmptyValue(inFrontmatter) THEN inFrontmatter
    ELSE IF NonEmptyValue(inBody) THEN inBody
    ELSE Undefined

IsHeadingLine(line) == trim(line) # <<>> /\ trim(line)[1] = "#"

IsBlankLine(line) == \A i \in 1..Len(line) : line[i] \in Whitespace

\* The text of a heading line: what follows its hash marks.
HeadingText(line) ==
    LET t == trim(line)
        hashes == CHOOSE k \in 1..Len(t) :
                     /\ \A i \in 1..k : t[i] = "#"
                     /\ k = Len(t) \/ t[k + 1] # "#"
    IN trim(SubSeq(t, hashes + 1, Len(t)))

First(S) == CHOOSE i \in S : \A o \in S : i <= o

MaxChanges == 3

Changes == 1..MaxChanges

\* The watcher reports a change under the target path: handleHotUpdate is called.
FileChange ==
    /\ input < MaxChanges
    /\ input' = input + 1
    /\ pc' = [pc EXCEPT ![input + 1] = "discover"]
    /\ UNCHANGED output

\* await discoverBlocks(targetPath): the call reads the files as they are.
DiscoverBlocks(h) ==
    /\ pc[h] = "discover"
    /\ output' = [output EXCEPT !.updatedBlocks[h] = input,
                                !.steps = Append(@, <<"discover", h>>)]
    /\ pc' = [pc EXCEPT ![h] = "generate"]
    /\ UNCHANGED input

\* blocksModule = await generateBlocksModule(updatedBlocks), then, without
\* another await, invalidateModule and ws.send({ type: 'full-reload' }).
SendFullReload(h) ==
    /\ pc[h] = "generate"
    /\ output' = [output EXCEPT !.blocksModule = output.updatedBlocks[h],
                                !.steps = @ \o << <<"replace", h>>, <<"invalidate", h>>,
                                                  <<"full-reload", h>> >>,
                                !.messages = Append(@, h)]
    /\ pc' = [pc EXCEPT ![h] = "done"]
    /\ UNCHANGED input

\* The client handles a full-reload: it requests ./blocks again, and load
\* returns the blocksModule of that moment.
ClientReload ==
    /\ output.messages # <<>>
    /\ output' = [output EXCEPT !.messages = Tail(@),
                                !.served = Append(@, [message |-> Head(output.messages),
                                                      module |-> output.blocksModule])]
    /\ UNCHANGED <<input, pc>>

InitServer ==
    /\ input = 0
    /\ pc = [h \in Changes |-> "idle"]
    /\ output = [blocksModule |-> 0,
                 updatedBlocks |-> [h \in Changes |-> 0],
                 steps |-> <<>>,
                 messages |-> <<>>,
                 served |-> <<>>]

SpecServer ==
    InitServer /\ [][\/ FileChange
                     \/ \E h \in Changes : DiscoverBlocks(h)
                     \/ \E h \in Changes : SendFullReload(h)
                     \/ ClientReload]_vars

(***************************************************************************)
(* C15.  The handler of a change re-discovers the blocks, replaces the     *)
(* served module, invalidates the virtual module and sends full-reload, in *)
(* this order, and a client that reloads in response to the full-reload    *)
(* sent for a change is never served a module generated from the files as  *)
(* they were before that change.                                           *)
(***************************************************************************)
StepsOf(h) == SelectSeq(output.steps, LAMBDA step : step[2] = h)

\* The steps a call has taken are the first steps of the order stated.
C15_StepsInOrder ==
    \A h \in Changes :
        LET order == << <<"discover", h>>, <<"replace", h>>, <<"invalidate", h>>,
                        <<"full-reload", h>> >>
        IN Len(StepsOf(h)) <= 4 /\ StepsOf(h) = SubSeq(order, 1, Len(StepsOf(h)))

C15_ReloadServesUpdatedModule ==
    /\ C15_StepsInOrder
    /\ \A i \in 1..Len(output.served) :
          output.served[i].module >= output.served[i].message

(***************************************************************************)
(* Block discovery.  A directory is its path (the sequence of its          *)
(* segments), the names of the index files in it, its README.md and its    *)
(* listing; an entry of the listing is a name, whether it is a directory,  *)
(* and for a directory the index files and README.md in it.                *)
(***************************************************************************)
INDEX_TS == <<"i", "n", "d", "e", "x", ".", "t", "s">>

INDEX_TSX == <<"i", "n", "d", "e", "x", ".", "t", "s", "x">>

NODE_MODULES == <<"n", "o", "d", "e", "_", "m", "o", "d", "u", "l", "e", "s">>

basename(path) == path[Len(path)]

\* What extractPropsFromFile resolves to for the files drawn: an index.ts
\* exports no component, every other file a component of the one prop
\* value: string.
propsOfFile(indexPath) ==
    IF basename(indexPath) = INDEX_TS THEN <<>>
    ELSE << [name |-> "value", type |-> [kind |-> "primitive", syntax |-> "string"],
             optional |-> FALSE, description |-> Undefined] >>

\* name: metadata.name ?? blockName
BlockInfo(blockName, indexPath, props, metadata) ==
    [name |-> IF metadata.name # Undefined THEN metadata.name[1] ELSE blockName,
     path |-> indexPath,
     props |-> props,
     description |-> metadata.description]

\* A getBlockInfo that looks for index.ts before index.tsx.
getBlockInfoTsFirst(blockDir, indexPath) ==
    LET found == IF indexPath # Undefined THEN indexPath
                 ELSE IF INDEX_TS \in blockDir.files THEN <<Append(blockDir.path, INDEX_TS)>>
                 ELSE IF INDEX_TSX \in blockDir.files THEN <<Append(blockDir.path, INDEX_TSX)>>
                 ELSE Undefined
    IN IF found = Undefined THEN Undefined
       ELSE << BlockInfo(basename(blockDir.path), found[1], propsOfFile(found[1]),
                         parseReadmeMetadata(blockDir.readme)) >>

getBlockInfo(blockDir, indexPath) ==
    LET found == IF indexPath # Undefined THEN indexPath
                 ELSE IF INDEX_TSX \in blockDir.files THEN <<Append(blockDir.path, INDEX_TSX)>>
                 ELSE IF INDEX_TS \in blockDir.files THEN <<Append(blockDir.path, INDEX_TS)>>
                 ELSE Undefined
    IN IF found = Undefined THEN Undefined
       ELSE << BlockInfo(basename(blockDir.path), found[1], propsOfFile(found[1]),
                         parseReadmeMetadata(blockDir.readme)) >>

\* target is the directory of the target path and, when the path is a file of
\* it, the name of that file.
discoverBlocks(target) ==
    LET indexPath == IF target.file # Undefined
                     THEN <<Append(target.directory.path, target.file[1])>>
                     ELSE Undefined
        blockInfo == getBlockInfo(target.directory, indexPath)
        scanned == SelectSeq(target.directory.entries,
                             LAMBDA entry : /\ entry.isDirectory
                                            /\ entry.name[1] # "."
                                            /\ entry.name # NODE_MODULES)
    IN IF blockInfo # Undefined THEN blockInfo
       ELSE Flatten([i \in 1..Len(scanned) |->
                        getBlockInfo([path |-> Append(target.directory.path, scanned[i].name),
                                      files |-> scanned[i].files,
                                      readme |-> scanned[i].readme], Undefined)])

\* The most entries of the target directory drawn.
MaxEntries == 3

\* README.md holding the one line #A.
ReadmeNamed == [kind |-> "file", content |-> <<"#", "A">>]

Entry(name, isDirectory, files, readme) ==
    [name |-> name, isDirectory |-> isDirectory, files |-> files, readme |-> readme]

\* A block with README, a block without, a directory with both index files, a
\* directory without index, a hidden directory, node_modules, and a file.
EntryOptions ==
    { Entry(<<"B", "u", "t", "t", "o", "n">>, TRUE, {INDEX_TSX}, ReadmeNamed),
      Entry(<<"C", "a", "r", "d">>, TRUE, {INDEX_TS}, [kind |-> "missing"]),
      Entry(<<"B", "o", "t", "h">>, TRUE, {INDEX_TS, INDEX_TSX}, [kind |-> "missing"]),
      Entry(<<"d", "o", "c", "s">>, TRUE, {}, ReadmeNamed),
      Entry(<<".", "c", "a", "c", "h", "e">>, TRUE, {INDEX_TSX}, [kind |-> "missing"]),
      Entry(NODE_MODULES, TRUE, {INDEX_TS}, [kind |-> "missing"]),
      Entry(<<"n", "o", "t", "e", "s", ".", "m", "d">>, FALSE, {}, [kind |-> "missing"]) }

\* Listings name every entry once.
Listings ==
    {es \in SeqsUpTo(EntryOptions, MaxEntries) :
        \A i, j \in 1..Len(es) : i # j => es[i].name # es[j].name}

Targets ==
    { [directory |-> [path |-> << <<"w", "o", "r", "k">>, <<"b", "l", "o", "c", "k", "s">> >>,
                      files |-> files, readme |-> readme, entries |-> entries],
       file |-> file] :
        files \in SUBSET {INDEX_TS, INDEX_TSX},
        readme \in {[kind |-> "missing"], ReadmeNamed},
        entries \in Listings,
        file \in {Undefined, <<INDEX_TS>>, << <<"H", "e", "r", "o", ".", "t", "s", "x">> >>} }

DiscoverBlocksOf ==
    /\ pc = "ready"
    /\ output' = discoverBlocks(input)
    /\ pc' = "done"
    /\ UNCHANGED input

InitBlocks ==
    /\ input \in {t \in Targets : t.file = <<INDEX_TS>> => INDEX_TS \in t.directory.files}
    /\ pc = "ready"
    /\ output = <<>>

SpecBlocks == InitBlocks /\ [][DiscoverBlocksOf]_vars

\* The name the claim gives a block of directory d: the README metadata name
\* when present, else the base name of the directory.
BlockName(path, readme) ==
    IF parseReadmeMetadata(readme).name # Undefined
    THEN parseReadmeMetadata(readme).name[1]
    ELSE basename(path)

IndexOf(files) == IF INDEX_TSX \in files THEN INDEX_TSX ELSE INDEX_TS

IsSkipped(entry) == entry.name[1] = "." \/ entry.name = NODE_MODULES

\* The entries of the listing that are blocks, in listing order.
BlockEntries(directory) ==
    SelectSeq(directory.entries,
              LAMBDA e : e.isDirectory /\ e.files # {} /\ ~IsSkipped(e))

\* C16: discoverBlocks returns exactly one block, whatever the subdirectories
\* are, when the target directory contains index.tsx or index.ts (index.tsx
\* preferred) or the target is a file; otherwise one block per immediate
\* subdirectory containing an index file, in directory-listing order, skipping
\* those named '.'-something or node_modules; each block's name is the README
\* metadata name when present, else the directory's base name.
C16_OneBlockOrOnePerSubdirectory ==
    pc = "done" =>
        LET d == input.directory
        IN IF input.file # Undefined
           THEN /\ Len(output) = 1
                /\ output[1].path = Append(d.path, input.file[1])
                /\ output[1].name = BlockName(d.path, d.readme)
           ELSE IF d.files # {}
           THEN /\ Len(output) = 1
                /\ output[1].path = Append(d.path, IndexOf(d.files))
                /\ output[1].name = BlockName(d.path, d.readme)
           ELSE /\ Len(output) = Len(BlockEntries(d))
                /\ \A i \in 1..Len(output) :
                      LET e == BlockEntries(d)[i]
                      IN /\ output[i].path = Append(Append(d.path, e.name), IndexOf(e.files))
                         /\ output[i].name = BlockName(Append(d.path, e.name), e.readme)

\* A target without index whose listing holds a skipped directory between two
\* blocks, the first named by its README and the second, which has both index
\* files, by its directory.
C16_Witness ==
    /\ pc = "done"
    /\ input.file = Undefined
    /\ input.directory.files = {}
    /\ Len(input.directory.entries) = 3
    /\ IsSkipped(input.directory.entries[2])
    /\ Len(output) = 2
    /\ output[1].name = <<"A">>
    /\ output[2].name = input.directory.entries[3].name
    /\ basename(output[2].path) = INDEX_TSX
    /\ INDEX_TS \in input.directory.entries[3].files

(***************************************************************************)
(* Unions with a function member.                                          *)
(***************************************************************************)
\* The function type a member of a union is, directly or in parentheses.
FunctionMember(m) ==
    IF m.kind = "FunctionType" THEN <<m>>
    ELSE IF m.kind = "ParenthesizedType" /\ m.type.kind = "FunctionType" THEN <<m.type>>
    ELSE <<>>

FunctionMembers(t) == Flatten([i \in 1..Len(t.types) |-> FunctionMember(t.types[i])])

IsUnionWithFunction(t) == t.kind = "UnionType" /\ FunctionMembers(t) # <<>>

\* C17: a field whose type is a union in which at least one member is a
\* function type, directly or parenthesized, is classified as Function, not
\* Union, and its parameters are those of the first such member, in order.
C17_UnionWithFunctionIsFunction ==
    (pc = "done" /\ ~output.threw /\ IsUnionWithFunction(Annotation(input)))
    => /\ output.props[1].type.kind = "function"
       /\ LET ps == FunctionMembers(Annotation(input))[1].parameters
              parameters == output.props[1].type.parameters
          IN /\ Len(parameters) = Len(ps)
             /\ \A i \in 1..Len(ps) : parameters[i].name = ps[i].name.text

\* What the resolver does with such a field: the union test of buildPropType
\* comes before its function test, so the field is a union and each function
\* member of it is a function shape of its own.
C17_ClassifiedUnion ==
    (pc = "done" /\ ~output.threw /\ IsUnionWithFunction(Annotation(input)))
    => /\ output.props[1].type.kind = "union"
       /\ \A i \in 1..Len(Annotation(input).types) :
             FunctionMember(Annotation(input).types[i]) # <<>>
             => output.props[1].type.types[i].kind = "function"

(***************************************************************************)
(* Files that differ in the declarations of the name T and in where the    *)
(* annotation of Props.value refers to it:                                 *)
(*   <declarations of T>  interface Base { id: string }                    *)
(*   interface Props { value: <annotation> }                               *)
(*   export default (props: Props) => ...                                  *)
(***************************************************************************)
Member(n) == PropertySignature(n, FALSE, <<Str>>, <<>>)

\* T declared once, or not at all.
SingleDeclarations ==
    { <<>>,
      <<InterfaceDeclaration("T", <<>>, <<>>)>>,
      <<InterfaceDeclaration("T", <<>>, <<Member("a")>>)>>,
      <<InterfaceDeclaration("T", <<"Base">>, <<>>)>>,
      <<InterfaceDeclaration("T", <<"Gone">>, <<>>)>>,
      <<InterfaceDeclaration("T", <<>>, <<MethodSignature("m")>>)>>,
      <<InterfaceDeclaration("T", <<>>,
                             <<PropertySignature("self", TRUE, <<TypeReference("T")>>, <<>>)>>)>>,
      <<TypeAliasDeclaration("T", TypeLiteral(<<>>))>>,
      <<TypeAliasDeclaration("T", TypeLiteral(<<Member("a")>>))>>,
      <<TypeAliasDeclaration("T", Str)>>,
      <<TypeAliasDeclaration("T", TypeReference("Base"))>> }

\* T declared twice: two interfaces that merge, an interface and an alias, or
\* a second declaration in the body of a function before or after the first.
RepeatedDeclarations ==
    { <<InterfaceDeclaration("T", <<>>, <<Member("a")>>),
        InterfaceDeclaration("T", <<>>, <<Member("b")>>)>>,
      <<InterfaceDeclaration("T", <<>>, <<Member("a")>>),
        InterfaceDeclaration("T", <<>>, <<>>)>>,
      <<InterfaceDeclaration("T", <<>>, <<Member("a")>>),
        FunctionDeclaration("helper", {}, <<>>,
                            <<TypeAliasDeclaration("T", TypeLiteral(<<Member("b")>>))>>)>>,
      <<FunctionDeclaration("helper", {}, <<>>,
                            <<InterfaceDeclaration("T", <<>>, <<Member("b")>>)>>),
        InterfaceDeclaration("T", <<>>, <<Member("a")>>)>>,
      <<FunctionDeclaration("helper", {}, <<>>,
                            <<TypeAliasDeclaration("T", Str)>>),
        TypeAliasDeclaration("T", TypeLiteral(<<Member("a")>>))>> }

ReferenceAnnotations ==
    { TypeReference("T"),
      ArrayType(TypeReference("T")),
      UnionType(<<Str, TypeReference("T")>>),
      TupleType(<<TypeReference("T"), TypeReference("Date")>>),
      FunctionType(<<Parameter("x", FALSE, <<TypeReference("T")>>)>>),
      TypeLiteral(<<PropertySignature("key", FALSE, <<TypeReference("T")>>, <<>>)>>),
      TypeLiteral(<<>>),
      TypeLiteral(<<MethodSignature("m")>>) }

ReferenceFile(decls, t) ==
    SourceFile("source.tsx",
               decls \o << BaseDeclaration,
                           InterfaceDeclaration("Props", <<>>,
                                                <<PropertySignature("value", FALSE, <<t>>, <<>>)>>),
                           DefaultArrow >>)

ReferenceFiles ==
    {ReferenceFile(decls, t) :
        decls \in SingleDeclarations \cup RepeatedDeclarations, t \in ReferenceAnnotations}

InitReference ==
    /\ input \in ReferenceFiles
    /\ pc = "ready"
    /\ output = Ret(<<>>)

SpecReference == InitReference /\ [][ExtractPropsFromSource]_vars

\* The type nodes of an annotation paired with the shapes at their positions
\* in the shape resolved for it.
RECURSIVE ShapePairs(_, _)
ShapePairs(t, shape) ==
    {<<t, shape>>} \cup
    (CASE t.kind = "ArrayType" /\ shape.kind = "array" ->
            ShapePairs(t.elementType, shape.elementType)
       [] t.kind = "TupleType" /\ shape.kind = "tuple" ->
            UNION {ShapePairs(t.elements[i], shape.types[i]) : i \in 1..Len(t.elements)}
       [] t.kind = "UnionType" /\ shape.kind = "union" ->
            UNION {ShapePairs(t.types[i], shape.types[i]) : i \in 1..Len(t.types)}
       [] t.kind = "FunctionType" /\ shape.kind = "function" ->
            UNION {ShapePairs(t.parameters[i].type[1], shape.parameters[i].type) :
                      i \in {j \in 1..Len(t.parameters) : t.parameters[j].type # <<>>}}
       [] t.kind = "TypeLiteral" /\ shape.kind = "object"
          /\ \A i \in 1..Len(t.members) : isNamedProperty(t.members[i]) /\ t.members[i].type # <<>> ->
            UNION {ShapePairs(t.members[i].type[1], shape.properties[i].type) :
                      i \in 1..Len(t.members)}
       [] OTHER -> {})

\* The declarations reached from a set of declarations through extends clauses.
RECURSIVE WithBases(_, _)
WithBases(sourceFile, decls) ==
    LET names == UNION {ExtendedNames(d) : d \in decls}
        next == decls \cup {findTypeDeclaration(sourceFile, n)[1] :
                               n \in {m \in names : findTypeDeclaration(sourceFile, m) # Null}}
    IN IF next = decls THEN decls ELSE WithBases(sourceFile, next)

\* The name resolves to a declaration that holds a named property signature,
\* itself or through a declaration it extends.
YieldsField(sourceFile, name) ==
    /\ findTypeDeclaration(sourceFile, name) # Null
    /\ \E d \in WithBases(sourceFile, {findTypeDeclaration(sourceFile, name)[1]}) :
          OwnProperties(d) # <<>>

ReferenceIsObjectExactlyWithFields(sourceFile, props) ==
    \A pair \in ShapePairs(Annotation(sourceFile), props[1].type) :
        /\ pair[1].kind = "TypeReference" =>
              IF YieldsField(sourceFile, pair[1].typeName.text)
              THEN pair[2].kind = "object" /\ pair[2].properties # <<>>
              ELSE pair[2] = [kind |-> "primitive", syntax |-> pair[1].text]
        /\ (pair[2].kind = "object" /\ pair[2].properties = <<>>) =>
              pair[1].kind = "TypeLiteral" /\ SelectSeq(pair[1].members, isNamedProperty) = <<>>

\* C18: a type reference resolves to an Object shape exactly when its name
\* resolves to a declaration that yields at least one field, own or inherited;
\* when no declaration is found or the declaration yields no field, the shape
\* is Primitive with the reference's own text.  An Object shape without fields
\* comes only from an inline type literal without fields.
C18_ReferenceIsObjectExactlyWithFields ==
    pc = "done" =>
        /\ ~output.threw
        /\ ReferenceIsObjectExactlyWithFields(input, output.props)

\* The same, of the files whose extraction returns.
C18_WhenReturned ==
    (pc = "done" /\ ~output.threw) => ReferenceIsObjectExactlyWithFields(input, output.props)

\* The declarations of a name in the order the tree walk meets them.
DeclarationsNamed(sourceFile, name) ==
    SelectSeq(Walk(sourceFile.statements),
              LAMBDA n : isTypeDeclaration(n) /\ n.name.text = name)

\* Every reference of the annotation to a name declared more than once has the
\* shape the declaration pick(declarations) gives it.
RepeatedNameUses(sourceFile, props, pick(_)) ==
    \A pair \in ShapePairs(Annotation(sourceFile), props[1].type) :
        (/\ pair[1].kind = "TypeReference"
         /\ Len(DeclarationsNamed(sourceFile, pair[1].typeName.text)) > 1)
        => LET decl == pick(DeclarationsNamed(sourceFile, pair[1].typeName.text))
               fields == extractPropertiesFromDeclaration(decl, sourceFile, Undefined, {}).props
           IN IF fields # <<>>
              THEN pair[2].kind = "object" /\ pair[2].properties = fields
              ELSE pair[2].kind = "primitive"

Earliest(decls) == decls[1]

Latest(decls) == decls[Len(decls)]

\* C19: same-file lookup of a type name returns the first declaration with
\* that name in the order of the tree walk: when a file declares the name more
\* than once, the earliest declaration is used for field extraction.
C19_EarliestDeclarationUsed ==
    (pc = "done" /\ ~output.threw) => RepeatedNameUses(input, output.props, Earliest)

\* What the lookup does: findTypeDeclaration assigns result at every match of
\* the walk and never stops, so the latest declaration is used.
C19_LatestDeclarationUsed ==
    (pc = "done" /\ ~output.threw) => RepeatedNameUses(input, output.props, Latest)

(***************************************************************************)
(* Names of the component's own file in whole-program mode.                *)
(***************************************************************************)
\* Every type name the props interface reaches through extends clauses is
\* declared in the component's file.
OnlyLocalNames(program) ==
    /\ program.filePath \in DOMAIN program.files
    /\ firstParamType(ComponentOf(program)) # <<>>
    /\ firstParamType(ComponentOf(program))[1].kind = "TypeReference"
    /\ \A n \in ExtendsClosure(ComponentOf(program),
                               {firstParamType(ComponentOf(program))[1].typeName.text}) :
          findTypeDeclaration(ComponentOf(program), n) # Null

\* C20: in whole-program mode the parameter's type reference and every extends
\* reference are looked up in the same file first, and in the symbol table
\* only when that finds nothing: a name declared in the current file resolves
\* to the same declaration and yields the same fields as in single-file mode.
C20_LocalNamesAsInSingleFileMode ==
    (/\ pc = "done"
     /\ OnlyLocalNames(input)
     /\ ~extractPropsFromSource(ComponentOf(input)).threw)
    => output.props = extractPropsFromSource(ComponentOf(input)).props

\* What holds of the code: the parameter's type reference is looked up in the
\* same file first, so a parameter typed by a declaration of the file without
\* extends clause has the fields of single-file mode.
C20_ParameterTypeAsInSingleFileMode ==
    (/\ pc = "done"
     /\ OnlyLocalNames(input)
     /\ ExtendedNames(ParamDeclaration(ComponentOf(input))[1]) = {}
     /\ ~extractPropsFromSource(ComponentOf(input)).threw)
    => output.props = extractPropsFromSource(ComponentOf(input)).props

(***************************************************************************)
(* The file a declaration resolved across files is read in.                *)
(***************************************************************************)
BaseFile(program) == program.files["./BaseProps"]

\* The component's parameter is typed by the imported BaseProps or by a
\* declaration that extends it.
ReachesImportedBase(program) ==
    /\ {"Component.tsx", "./BaseProps"} \subseteq DOMAIN program.files
    /\ firstParamType(ComponentOf(program)) # <<>>
    /\ "BaseProps" \in ExtendsClosure(ComponentOf(program),
                                      {firstParamType(ComponentOf(program))[1].typeName.text})

PropertyNames(shape) == [i \in 1..Len(shape.properties) |-> shape.properties[i].name]

\* C21: after a cross-file resolution, of the parameter's type reference or of
\* an extends reference, the members of the resolved declaration and its own
\* extends references are read against the file that declares it: a member
\* typed User has the shape of the User of the declaring file (a primitive
\* when that file declares none), BaseProps extends the Root of its own file,
\* and nothing comes from the User or Root of the component's file.
C21_ReadInDeclaringFile ==
    (pc = "done" /\ ReachesImportedBase(input) /\ output.logged = <<>>)
    => /\ \A i \in 1..Len(output.props) :
             /\ output.props[i].name = "owner" =>
                   IF findTypeDeclaration(BaseFile(input), "User") # Null
                   THEN /\ output.props[i].type.kind = "object"
                        /\ PropertyNames(output.props[i].type) = <<"email">>
                   ELSE output.props[i].type = [kind |-> "primitive", syntax |-> "User"]
             /\ output.props[i].name # "other"
       /\ (\E j \in 1..Len(output.props) : output.props[j].name = "root")
          <=> /\ "Root" \in ExtendedNames(findTypeDeclaration(BaseFile(input), "BaseProps")[1])
              /\ findTypeDeclaration(BaseFile(input), "Root") # Null

\* The component's file declares a Root of its own; the base file declares User
\* and Root, and BaseProps extends Root and has a member typed User.
C21_Witness ==
    /\ pc = "done"
    /\ ReachesImportedBase(input)
    /\ findTypeDeclaration(ComponentOf(input), "Root") # Null
    /\ findTypeDeclaration(BaseFile(input), "User") # Null
    /\ \E i, j \in 1..Len(output.props) :
          /\ output.props[i].name = "root"
          /\ output.props[j].name = "owner"
          /\ i < j
          /\ PropertyNames(output.props[j].type) = <<"email">>

(***************************************************************************)
(* A field typed by an imported declaration.                               *)
(***************************************************************************)
\* The fields named base of a returned extraction whose base file gives
\* BaseProps a member of its own.
ImportedFieldTypes(program, props) ==
    IF /\ {"Component.tsx", "./BaseProps"} \subseteq DOMAIN program.files
       /\ OwnProperties(findTypeDeclaration(BaseFile(program), "BaseProps")[1]) # <<>>
    THEN {props[i].type : i \in {j \in 1..Len(props) : props[j].name = "base"}}
    ELSE {}

\* C22: in whole-program mode a field whose annotation names an interface
\* declared in another file, and not in the field's own file, resolves to an
\* Object shape with that declaration's fields, not to a Primitive.
C22_ImportedFieldTypeIsObject ==
    (pc = "done" /\ output.logged = <<>>)
    => \A type \in ImportedFieldTypes(input, output.props) :
          /\ type.kind = "object"
          /\ PropertyNames(type)[Len(type.properties)] =
                Latest(OwnProperties(findTypeDeclaration(BaseFile(input), "BaseProps")[1])).name.text

\* What the resolver does: buildPropType is not given the type checker, looks
\* the name up in the field's own file only, and the field is a Primitive
\* with the reference's text.
C22_ImportedFieldTypeIsPrimitive ==
    (pc = "done" /\ output.logged = <<>>)
    => \A type \in ImportedFieldTypes(input, output.props) :
          type = [kind |-> "primitive", syntax |-> "BaseProps"]

(***************************************************************************)
(* Props declared by a type alias.                                         *)
(***************************************************************************)
IsAlias(sourceFile) ==
    /\ ParamDeclaration(sourceFile) # Null
    /\ ParamDeclaration(sourceFile)[1].kind = "TypeAliasDeclaration"

\* C23: a type-alias declaration yields fields only when its target is an
\* inline type literal, and then the fields of the literal's members alone; an
\* alias of a union, an intersection or another named type yields no field,
\* whatever the named type declares.
C23_AliasYieldsFieldsOnlyOfLiteral ==
    (pc = "done" /\ IsAlias(input))
    => IF ParamDeclaration(input)[1].type.kind = "TypeLiteral"
       THEN ~output.threw =>
               [i \in 1..Len(output.props) |-> output.props[i].name]
               = [i \in 1..Len(OwnProperties(ParamDeclaration(input)[1])) |->
                     OwnProperties(ParamDeclaration(input)[1])[i].name.text]
       ELSE output = Ret(<<>>)

\* Props is an alias of Other, and Other declares a field.
C23_Witness ==
    /\ pc = "done"
    /\ IsAlias(input)
    /\ ParamDeclaration(input)[1].type = TypeReference("Other")
    /\ OwnProperties(findTypeDeclaration(input, "Other")[1]) # <<>>
    /\ output = Ret(<<>>)

(***************************************************************************)
(* Termination.  The code keeps no record of the declarations it is        *)
(* resolving; a resolution that re-enters a declaration on its path never  *)
(* ends and is cut off by the RangeError of the call stack.                *)
(***************************************************************************)
\* The type names a declaration mentions in an extends clause or in the
\* annotation of one of its named property signatures.
ReferencedNames(decl) ==
    ExtendedNames(decl) \cup
    UNION {{t.typeName.text : t \in {u \in TypeNodesWithin(a) : u.kind = "TypeReference"}} :
              a \in AnnotationsOf(OwnProperties(decl))}

\* The type names reached from names through member type references and
\* extends clauses.
RECURSIVE ReferenceClosure(_, _)
ReferenceClosure(sourceFile, names) ==
    LET next == names \cup UNION {ReferencedNames(d) :
                    d \in {x \in TypeDeclarations(sourceFile) : x.name.text \in names}}
    IN IF next = names THEN names ELSE ReferenceClosure(sourceFile, next)

NoDeclarationReachesItself(sourceFile) ==
    \A d \in TypeDeclarations(sourceFile) :
        d.name.text \notin ReferenceClosure(sourceFile, ReferencedNames(d))

\* C24: resolution ends for every file in which no declaration reaches itself
\* through a chain of member type references or extends clauses.
C24_EndsWithoutSelfReachingDeclaration ==
    (pc = "done" /\ NoDeclarationReachesItself(input)) => ~output.threw

\* The parameter's declaration reaches a second declaration, which reaches a
\* third, and the fields of the chain are returned.
C24_Witness ==
    /\ pc = "done"
    /\ NoDeclarationReachesItself(input)
    /\ ParamDeclaration(input) # Null
    /\ \E d \in TypeDeclarations(input) :
          /\ d.name.text \in ReferencedNames(ParamDeclaration(input)[1])
          /\ \E e \in TypeDeclarations(input) :
                /\ e.name.text \in ReferencedNames(d)
                /\ OwnProperties(e) # <<>>
    /\ ~output.threw
    /\ output.props # <<>>

(***************************************************************************)
(* export default Name.                                                    *)
(***************************************************************************)
\* The name a file exports as default by a bare identifier, <<>> when its
\* default export is of another form.
DefaultExportName(sourceFile) ==
    LET defaultExport == Last(SelectSeq(Walk(sourceFile.statements), isDefaultExport))
    IN IF /\ defaultExport # Null
          /\ defaultExport[1].kind = "ExportAssignment"
          /\ defaultExport[1].expression.kind = "Identifier"
       THEN <<defaultExport[1].expression.text>>
       ELSE Null

\* The statements of the file's own scope that bind name.
BindingsOf(sourceFile, name) ==
    SelectSeq(sourceFile.statements,
              LAMBDA n : \/ n.kind = "FunctionDeclaration" /\ n.name.text = name
                         \/ /\ n.kind = "VariableStatement"
                            /\ \E i \in 1..Len(n.declarations) :
                                  n.declarations[i].name.text = name)

\* The function bound to name by the file's only binding of it, Null when the
\* name is bound to a value of another kind or is not bound by the file.
BoundFunction(sourceFile, name) ==
    LET bindings == BindingsOf(sourceFile, name)
    IN IF bindings = <<>> THEN Null
       ELSE Last(functionsNamed(bindings[1], name))

\* C25: when the default export is a bare identifier, the locator uses the
\* value bound to that name, a function declaration or a variable whose
\* initializer is an arrow function or function expression; when the name is
\* bound to anything else the locator yields none and the result is the empty
\* list.
C25_LocatorUsesBoundValue ==
    (/\ pc = "done"
     /\ DefaultExportName(input) # Null
     /\ Len(BindingsOf(input, DefaultExportName(input)[1])) <= 1)
    => /\ findDefaultExportFunction(input)
            = BoundFunction(input, DefaultExportName(input)[1])
       /\ BoundFunction(input, DefaultExportName(input)[1]) = Null
            => output = Ret(<<>>)

\* The name exported is bound by no statement of the file's scope, and the
\* extraction returns fields.
C25_NestedFunctionUsed ==
    /\ pc = "done"
    /\ DefaultExportName(input) # Null
    /\ BindingsOf(input, DefaultExportName(input)[1]) = <<>>
    /\ ~output.threw
    /\ output.props # <<>>

\* No function named as the default export is declared inside another.
NoNestedFunctionNamed(sourceFile, name) ==
    \A n \in Range(Walk(sourceFile.statements)) :
        functionsNamed(n, name) # <<>> => n \in Range(sourceFile.statements)

C25_BoundValueWithoutNestedFunction ==
    (/\ pc = "done"
     /\ DefaultExportName(input) # Null
     /\ Len(BindingsOf(input, DefaultExportName(input)[1])) <= 1
     /\ NoNestedFunctionNamed(input, DefaultExportName(input)[1]))
    => /\ findDefaultExportFunction(input)
            = BoundFunction(input, DefaultExportName(input)[1])
       /\ BoundFunction(input, DefaultExportName(input)[1]) = Null
            => output = Ret(<<>>)

(***************************************************************************)
(* The parameters of a Function shape.                                     *)
(***************************************************************************)
\* The function type isFunctionType finds in a type node it accepts: the node
\* itself, the one inside its parentheses, or the one of the first member of
\* a union that holds one.
RECURSIVE FunctionTypeFound(_)
FunctionTypeFound(typeNode) ==
    IF typeNode.kind = "FunctionType" THEN typeNode
    ELSE IF typeNode.kind = "ParenthesizedType" THEN FunctionTypeFound(typeNode.type)
    ELSE LET i == CHOOSE j \in 1..Len(typeNode.types) :
                      /\ isFunctionType(typeNode.types[j])
                      /\ \A k \in 1..(j - 1) : ~isFunctionType(typeNode.types[k])
         IN FunctionTypeFound(typeNode.types[i])

ParameterNames(parameters) == [i \in 1..Len(parameters) |-> parameters[i].name.text]

C26_ParametersWhereExtractorFindsFunction ==
    (pc = "done" /\ ~output.threw /\ output.props # <<>>)
    => \A pair \in ShapePairs(Annotation(input), output.props[1].type) :
          (pair[2].kind = "function" /\ functionNodeOf(pair[1]) # <<>>)
          => /\ functionNodeOf(pair[1])[1] = FunctionTypeFound(pair[1])
             /\ [i \in 1..Len(pair[2].parameters) |-> pair[2].parameters[i].name]
                = ParameterNames(FunctionTypeFound(pair[1]).parameters)

\* A function type with a declared parameter, in two pairs of parentheses, is
\* reported without parameters.
C26_DeclaredParametersLost ==
    /\ pc = "done"
    /\ ~output.threw
    /\ Annotation(input).kind = "ParenthesizedType"
    /\ Annotation(input).type.kind = "ParenthesizedType"
    /\ Annotation(input).type.type.kind = "FunctionType"
    /\ Annotation(input).type.type.parameters # <<>>
    /\ output.props[1].type.kind = "function"
    /\ output.props[1].type.parameters = <<>>

(***************************************************************************)
(* Overlapping handleHotUpdate calls.                                      *)
(***************************************************************************)
AllHandlersFinished == \A h \in 1..input : pc[h] = "done"

\* C27: once all handlers have finished, the served blocks module is the one
\* generated from the most recent file contents: a handler that started
\* earlier has not overwritten the result of a handler that started later
\* with an older snapshot.
C27_LatestModuleWhenHandlersFinished ==
    (input > 0 /\ AllHandlersFinished) => output.blocksModule = input

\* Two calls overlapped and finished in the order they started.
C27_OverlappingHandlersInOrder ==
    /\ input = 2
    /\ AllHandlersFinished
    /\ output.updatedBlocks[1] = 1
    /\ SelectSeq(output.steps, LAMBDA step : step[1] \in {"discover", "replace"})
          = << <<"discover", 1>>, <<"discover", 2>>, <<"replace", 1>>, <<"replace", 2>> >>
    /\ output.blocksModule = 2

\* The later call finished first, and the earlier call replaced its module
\* with the one of the files before the second change.
C27_OlderSnapshotServed ==
    /\ input = 2
    /\ AllHandlersFinished
    /\ output.updatedBlocks[1] = 1
    /\ output.blocksModule = 1

(***************************************************************************)
(* The build commands: buildBlocks of commands/build.ts and buildStorybook *)
(* (same steps around the Vite build).  input is the command, the number   *)
(* of blocks under the target path, whether .blockparty-build exists       *)
(* before the run and whether the Vite build rejects; pc is the position   *)
(* of the command and output is what it leaves: the temporary directory    *)
(* and its blocks.ts, the output directory, the outcome of the Vite build, *)
(* the console lines and the exit code of a process.exit call.             *)
(* process.exit ends the process where it is called: no statement after    *)
(* the call runs, a pending finally block included.                        *)
(***************************************************************************)
\* The most blocks under the target path.
MaxBlocks == 2

BuildRuns ==
    [command : {"buildBlocks", "buildStorybook"},
     blocks : 0..MaxBlocks,
     tempDirExists : BOOLEAN,
     viteBuildRejects : BOOLEAN]

InitBuild ==
    /\ input \in BuildRuns
    /\ pc = "discoverBlocks"
    /\ output = [tempDir |-> input.tempDirExists,
                 blocksPath |-> FALSE,
                 outDir |-> FALSE,
                 viteBuild |-> "pending",
                 console |-> <<>>,
                 exitCode |-> Null]

\* const blocks = await discoverBlocks(targetPath); without blocks the
\* command reports it and exits with code 1.
DiscoverBlocksToBuild ==
    /\ pc = "discoverBlocks"
    /\ IF input.blocks = 0
       THEN /\ output' = [output EXCEPT !.console = Append(@, "No Blocks found!"),
                                        !.exitCode = <<1>>]
            /\ pc' = "exited"
       ELSE /\ output' = [output EXCEPT !.console = Append(@, "Found Block(s)")]
            /\ pc' = "generateBlocksModule"
    /\ UNCHANGED input

\* const blocksModule = await generateBlocksModule(blocks)
GenerateBlocksModule ==
    /\ pc = "generateBlocksModule"
    /\ pc' = "mkdir"
    /\ UNCHANGED <<input, output>>

\* await mkdir(tempDir, { recursive: true })
Mkdir ==
    /\ pc = "mkdir"
    /\ output' = [output EXCEPT !.tempDir = TRUE]
    /\ pc' = "writeFile"
    /\ UNCHANGED input

\* await writeFile(blocksPath, blocksModule)
WriteFile ==
    /\ pc = "writeFile"
    /\ output' = [output EXCEPT !.blocksPath = TRUE,
                                !.console = Append(@, "Generating static bundle...")]
    /\ pc' = "viteBuild"
    /\ UNCHANGED input

\* await viteBuild({...}) inside try: it resolves or rejects.
ViteBuild ==
    /\ pc = "viteBuild"
    /\ IF input.viteBuildRejects
       THEN /\ output' = [output EXCEPT !.viteBuild = "rejected"]
            /\ pc' = "catch"
       ELSE /\ output' = [output EXCEPT !.viteBuild = "resolved", !.outDir = TRUE]
            /\ pc' = "try"
    /\ UNCHANGED input

\* The rest of the try block; control passes to the finally block.
BuildComplete ==
    /\ pc = "try"
    /\ output' = [output EXCEPT !.console = Append(@, "Build complete!")]
    /\ pc' = "finally"
    /\ UNCHANGED input

\* catch (error) { console.error(...); process.exit(1) }
BuildFailed ==
    /\ pc = "catch"
    /\ output' = [output EXCEPT !.console = Append(@, "Build failed:"),
                                !.exitCode = <<1>>]
    /\ pc' = "exited"
    /\ UNCHANGED input

\* finally { await rm(tempDir, { recursive: true, force: true }) }
Rm ==
    /\ pc = "finally"
    /\ output' = [output EXCEPT !.tempDir = FALSE, !.blocksPath = FALSE]
    /\ pc' = "returned"
    /\ UNCHANGED input

NextBuild ==
    \/ DiscoverBlocksToBuild
    \/ GenerateBlocksModule
    \/ Mkdir
    \/ WriteFile
    \/ ViteBuild
    \/ BuildComplete
    \/ BuildFailed
    \/ Rm

SpecBuild == InitBuild /\ [][NextBuild]_vars

\* C28: on every path out of the bundling step, after a Vite build that
\* succeeded and after one that failed, the temporary directory
\* .blockparty-build no longer exists when the command has ended.
C28_TempDirRemovedOnEveryPath ==
    (pc \in {"returned", "exited"} /\ output.viteBuild # "pending") => ~output.tempDir

\* After a Vite build that succeeded the directory is removed.
C28_TempDirRemovedAfterSuccess ==
    (pc \in {"returned", "exited"} /\ output.viteBuild = "resolved")
    => /\ ~output.tempDir
       /\ output.exitCode = Null

\* The Vite build failed, the process has exited with code 1 and the directory
\* is still there.
C28_TempDirLeftAfterFailure ==
    /\ pc = "exited"
    /\ output.viteBuild = "rejected"
    /\ output.exitCode = <<1>>
    /\ output.tempDir
    /\ output.blocksPath

(***************************************************************************)
(* The storybook App.  input is the blocks module and the localStorage     *)
(* item 'blockparty-state' a session starts with: the number of blocks and *)
(* the item.  pc is the position of the page (mount, rendered with effects *)
(* pending, idle, crashed in render) and output is the App: selectedBlock, *)
(* the block read by `blocks[selectedBlock]` in the last render and the    *)
(* item in localStorage.  A JavaScript value is a record of its type and   *)
(* its number or string; an item is absent, the empty string, a text that  *)
(* is not JSON, or the JSON text of a value.                               *)
(***************************************************************************)
JSUndefined == [type |-> "undefined", number |-> 0, string |-> ""]

JSNull == [type |-> "null", number |-> 0, string |-> ""]

JSNumber(n) == [type |-> "number", number |-> n, string |-> ""]

JSString(s) == [type |-> "string", number |-> 0, string |-> s]

\* { selectedBlock, props }; an undefined selectedBlock is a key left out.
JSObject(selectedBlock) ==
    [type |-> "object", number |-> 0, string |-> "", selectedBlock |-> selectedBlock]

\* Blocks of the blocks module; it is generated for at least one block.
BlockCounts == 1..(MaxBlocks + 1)

SavedSelections ==
    {JSUndefined, JSNull, JSString("abc"), JSString("1")}
    \cup {JSNumber(n) : n \in -1..(MaxBlocks + 1)}

Items ==
    {[kind |-> "none"], [kind |-> "empty"], [kind |-> "text"]}
    \cup {[kind |-> "json", value |-> v] :
            v \in {JSNull, JSNumber(3)} \cup {JSObject(s) : s \in SavedSelections}}

\* a ?? b
nullish(a, b) == IF a.type \in {"undefined", "null"} THEN b ELSE a

\* The initializer of useState for selectedBlock: lines 183-190.  JSON.parse
\* throws on a text that is not JSON, and reading .selectedBlock of null
\* throws; both are caught.
initialSelectedBlock(saved) ==
    IF saved.kind \in {"none", "empty"} THEN JSNumber(0)
    ELSE IF saved.kind = "text" THEN JSNumber(0)
    ELSE IF saved.value.type = "null" THEN JSNumber(0)
    ELSE IF saved.value.type = "object" THEN nullish(saved.value.selectedBlock, JSNumber(0))
    ELSE JSNumber(0)

\* array[key] of an array of the given length: the index of the element, or
\* Undefined.  A string key names an element when it is the decimal text of
\* its index.
elementAt(length, key) ==
    IF key.type = "number" /\ key.number \in 0..(length - 1) THEN <<key.number>>
    ELSE IF key.type = "string" /\ key.string = "1" /\ 1 \in 0..(length - 1) THEN <<1>>
    ELSE Undefined

\* JSON.stringify({ selectedBlock, props }) of line 208.
savedState(selectedBlock) == [kind |-> "json", value |-> JSObject(selectedBlock)]

InitApp ==
    /\ input \in [blocks : BlockCounts, saved : Items]
    /\ pc = "mount"
    /\ output = [selectedBlock |-> JSUndefined,
                 currentBlock |-> Undefined,
                 localStorage |-> input.saved]

\* The first render of App: the state initializer, then
\* const currentBlock = blocks[selectedBlock]; currentBlock.Component throws
\* a TypeError when currentBlock is undefined, and no effect runs.
Mount ==
    /\ pc = "mount"
    /\ LET selectedBlock == initialSelectedBlock(output.localStorage)
           currentBlock == elementAt(input.blocks, selectedBlock)
       IN /\ output' = [output EXCEPT !.selectedBlock = selectedBlock,
                                      !.currentBlock = currentBlock]
          /\ pc' = IF currentBlock = Undefined THEN "crashed" ELSE "rendered"
    /\ UNCHANGED input

\* useEffect(() => localStorage.setItem(STORAGE_KEY, ...), [selectedBlock, props])
SaveState ==
    /\ pc = "rendered"
    /\ output' = [output EXCEPT !.localStorage = savedState(output.selectedBlock)]
    /\ pc' = "idle"
    /\ UNCHANGED input

\* onClick of the button of block idx: setSelectedBlock(idx); setProps({}),
\* and the render that follows.
SelectBlock(idx) ==
    /\ pc = "idle"
    /\ LET selectedBlock == JSNumber(idx)
           currentBlock == elementAt(input.blocks, selectedBlock)
       IN /\ output' = [output EXCEPT !.selectedBlock = selectedBlock,
                                      !.currentBlock = currentBlock]
          /\ pc' = IF currentBlock = Undefined THEN "crashed" ELSE "rendered"
    /\ UNCHANGED input

\* The page is loaded again, after the blocks under the target path may have
\* changed: a new session with the item the last one left.
Reload(blocks) ==
    /\ pc \in {"idle", "crashed"}
    /\ input' = [input EXCEPT !.blocks = blocks]
    /\ output' = [output EXCEPT !.selectedBlock = JSUndefined, !.currentBlock = Undefined]
    /\ pc' = "mount"

NextApp ==
    \/ Mount
    \/ SaveState
    \/ \E idx \in 0..(input.blocks - 1) : SelectBlock(idx)
    \/ \E blocks \in BlockCounts : Reload(blocks)

SpecApp == InitApp /\ [][NextApp]_vars

\* C29: selectedBlock indexes an existing block whenever the current block is
\* read, for every saved localStorage state and every sequence of block
\* selections.
C29_SelectedBlockIndexesBlock ==
    pc # "mount" => output.currentBlock # Undefined

\* A selection made in a session always indexes a block of that session.
C29_SelectionIndexesBlock ==
    [][\A idx \in 0..(input.blocks - 1) :
          SelectBlock(idx) => output'.currentBlock = <<idx>>]_vars

\* A session with three blocks saved the selection of the last one; the page
\* is loaded again with two blocks and the render reads no block.
C29_SavedSelectionOutOfRange ==
    /\ pc = "crashed"
    /\ input.blocks = 2
    /\ input.saved = [kind |-> "none"]
    /\ output.localStorage = savedState(JSNumber(2))
    /\ output.selectedBlock = JSNumber(2)
    /\ output.currentBlock = Undefined

(***************************************************************************)
(* Default values.  A string of the templates is the sequence of its       *)
(* characters; a call returns [threw |-> FALSE, text |-> string] or raises *)
(* the SyntaxError of JSON.parse.  A parsed JSON value is a record of its  *)
(* type and its digits, characters or items.                               *)
(***************************************************************************)
Returned(text) == [threw |-> FALSE, text |-> text]

SyntaxError == [threw |-> TRUE, text |-> <<>>]

Digits == {"0", "1", "2", "3", "4", "5", "6", "7", "8", "9"}

FALSE_TEXT == <<"f", "a", "l", "s", "e">>

TRUE_TEXT == <<"t", "r", "u", "e">>

NoValue == [ok |-> FALSE, value |-> [t |-> "none"], rest |-> <<>>]

Parsed(value, rest) == [ok |-> TRUE, value |-> value, rest |-> rest]

Drop(s, n) == SubSeq(s, n + 1, Len(s))

\* JSON.parse, for the texts the templates hand it: a number without sign,
\* fraction or exponent, true, false, a string without escapes, {} and arrays
\* of these, without whitespace.  Any other text is a SyntaxError.
RECURSIVE parseJSONValue(_)
RECURSIVE parseJSONElements(_, _)
parseJSONValue(s) ==
    IF s = <<>> THEN NoValue
    ELSE IF Head(s) \in Digits
    THEN LET n == IF Head(s) = "0" THEN 1
                  ELSE CHOOSE k \in 1..Len(s) :
                          /\ \A i \in 1..k : s[i] \in Digits
                          /\ k = Len(s) \/ s[k + 1] \notin Digits
         IN Parsed([t |-> "number", digits |-> SubSeq(s, 1, n)], Drop(s, n))
    ELSE IF startsWith(s, FALSE_TEXT) THEN Parsed([t |-> "false"], Drop(s, 5))
    ELSE IF startsWith(s, TRUE_TEXT) THEN Parsed([t |-> "true"], Drop(s, 4))
    ELSE IF startsWith(s, <<"{", "}">>) THEN Parsed([t |-> "object"], Drop(s, 2))
    ELSE IF Head(s) = "\""
    THEN IF \E k \in 2..Len(s) : s[k] = "\""
         THEN LET k == CHOOSE j \in 2..Len(s) :
                          s[j] = "\"" /\ \A i \in 2..(j - 1) : s[i] # "\""
              IN Parsed([t |-> "string", chars |-> SubSeq(s, 2, k - 1)], Drop(s, k))
         ELSE NoValue
    ELSE IF startsWith(s, <<"[", "]">>) THEN Parsed([t |-> "array", items |-> <<>>], Drop(s, 2))
    ELSE IF Head(s) = "[" THEN parseJSONElements(Tail(s), <<>>)
    ELSE NoValue

parseJSONElements(s, items) ==
    LET element == parseJSONValue(s)
    IN IF ~element.ok \/ element.rest = <<>> THEN NoValue
       ELSE IF Head(element.rest) = ","
       THEN parseJSONElements(Tail(element.rest), Append(items, element.value))
       ELSE IF Head(element.rest) = "]"
       THEN Parsed([t |-> "array", items |-> Append(items, element.value)], Tail(element.rest))
       ELSE NoValue

JSONparse(text) ==
    LET parsed == parseJSONValue(text)
    IN IF parsed.ok /\ parsed.rest = <<>> THEN <<parsed.value>> ELSE Null

RECURSIVE JSONstringify(_)
JSONstringify(value) ==
    CASE value.t = "number" -> value.digits
      [] value.t = "false" -> FALSE_TEXT
      [] value.t = "true" -> TRUE_TEXT
      [] value.t = "object" -> <<"{", "}">>
      [] value.t = "string" -> <<"\"">> \o value.chars \o <<"\"">>
      [] value.t = "array" ->
            <<"[">> \o Flatten([i \in 1..Len(value.items) |->
                                   (IF i > 1 THEN <<",">> ELSE <<>>)
                                   \o JSONstringify(value.items[i])])
            \o <<"]">>

\* new Date().toISOString().slice(0, 16), at some minute.
DATETIME_LOCAL ==
    <<"2", "0", "2", "5", "-", "0", "1", "-", "1", "5", "T", "0", "9", ":", "3", "0">>

\* propType.syntax.includes('object')
includesObject(syntax) == syntax \in {"object", "object | null"}

\* The tuple branch of both getDefaultValue functions: the default of each
\* element is parsed, and the array of the parsed values is written.
tupleDefault(defaults) ==
    IF \E i \in 1..Len(defaults) : defaults[i].threw \/ JSONparse(defaults[i].text) = Null
    THEN SyntaxError
    ELSE Returned(JSONstringify([t |-> "array",
                                 items |-> [i \in 1..Len(defaults) |->
                                               JSONparse(defaults[i].text)[1]]]))

\* getDefaultValue of App.tsx.
RECURSIVE getDefaultValue(_, _)
getDefaultValue(propType, optional) ==
    IF optional THEN Returned(<<>>)
    ELSE IF propType.kind = "array" THEN Returned(<<"[", "]">>)
    ELSE IF propType.kind = "tuple"
    THEN tupleDefault([i \in 1..Len(propType.types) |-> getDefaultValue(propType.types[i], FALSE)])
    ELSE IF propType.kind = "object" \/ includesObject(propType.syntax)
    THEN Returned(<<"{", "}">>)
    ELSE IF propType.syntax = "number" THEN Returned(<<"0">>)
    ELSE IF propType.syntax = "boolean" THEN Returned(FALSE_TEXT)
    ELSE IF propType.syntax = "Date" THEN Returned(DATETIME_LOCAL)
    ELSE Returned(<<>>)

isConstantUnion(propType) ==
    /\ propType.kind = "union"
    /\ \A i \in 1..Len(propType.types) : propType.types[i].kind = "constant"

parseConstantUnion(propType) ==
    IF propType.kind # "union" THEN <<>>
    ELSE LET constants == SelectSeq(propType.types, LAMBDA t : t.kind = "constant")
         IN [i \in 1..Len(constants) |-> constants[i].value]

\* getDefaultValue of PropsEditor.tsx.
RECURSIVE getDefaultValueOfEditor(_, _)
getDefaultValueOfEditor(propType, optional) ==
    IF optional THEN Returned(<<>>)
    ELSE IF propType.kind = "object" THEN Returned(<<"{", "}">>)
    ELSE IF propType.kind = "array" THEN Returned(<<"[", "]">>)
    ELSE IF propType.kind = "tuple"
    THEN tupleDefault([i \in 1..Len(propType.types) |->
                          getDefaultValueOfEditor(propType.types[i], FALSE)])
    ELSE IF propType.syntax = "number" THEN Returned(<<"0">>)
    ELSE IF propType.syntax = "boolean" THEN Returned(FALSE_TEXT)
    ELSE IF isConstantUnion(propType)
    THEN LET options == parseConstantUnion(propType)
         IN Returned(IF options = <<>> THEN <<>> ELSE options[1])
    ELSE Returned(<<>>)

\* The shapes of a prop: the value of a constant is the text of its literal.
ConstantOf(syntax, value) == [kind |-> "constant", syntax |-> syntax, value |-> value]

ArrayShape(elementType) ==
    [kind |-> "array", syntax |-> elementType.syntax \o "[]", elementType |-> elementType]

TupleShape(types) ==
    [kind |-> "tuple",
     syntax |-> "[" \o Join([i \in 1..Len(types) |-> types[i].syntax], ", ") \o "]",
     types |-> types]

\* The most elements of a tuple.
MaxElements == 2

ElementShapes ==
    { PrimitiveShape("string"), PrimitiveShape("number"), PrimitiveShape("boolean"),
      PrimitiveShape("Date"), PrimitiveShape("object"),
      ConstantOf("'a'", <<"'", "a", "'">>),
      ObjectShape("{ id: string }", <<PropDefinition("id", PrimitiveShape("string"))>>),
      ArrayShape(PrimitiveShape("string")),
      [kind |-> "function", syntax |-> "() => void", parameters |-> <<>>],
      UnionShape(<<PrimitiveShape("string"), PrimitiveShape("number")>>),
      UnionShape(<<ConstantOf("'a'", <<"'", "a", "'">>), ConstantOf("'b'", <<"'", "b", "'">>)>>),
      UnionShape(<<ConstantOf("\"a\"", <<"\"", "a", "\"">>), ConstantOf("7", <<"7">>)>>),
      UnionShape(<<ConstantOf("42", <<"4", "2">>), ConstantOf("true", TRUE_TEXT)>>) }

TupleShapes == {TupleShape(types) : types \in SeqsUpTo(ElementShapes, MaxElements)}

NestedTupleShapes ==
    {TupleShape(<<t>>) :
        t \in {TupleShape(types) :
                  types \in SeqsUpTo({PrimitiveShape("string"), PrimitiveShape("number"),
                                      PrimitiveShape("boolean")}, MaxElements)}}

ValueShapes == ElementShapes \cup TupleShapes \cup NestedTupleShapes

InitDefaults ==
    /\ input \in [type : ValueShapes \cup {ArrayShape(t) : t \in ValueShapes},
                  optional : BOOLEAN]
    /\ pc = "ready"
    /\ output = Returned(<<>>)

\* The effect of App that initializes the props of the block shown, for a
\* prop of the type without a value: lines 214-236.
InitializeProps ==
    /\ pc = "ready"
    /\ pc' = "initialized"
    /\ output' = IF input.optional THEN Returned(<<>>)
                 ELSE getDefaultValue(input.type, input.optional)
    /\ UNCHANGED input

\* addItem of the array editor: getDefaultValue(propType.elementType, false).
AddItem ==
    /\ pc = "ready"
    /\ input.type.kind = "array"
    /\ pc' = "added"
    /\ output' = getDefaultValueOfEditor(input.type.elementType, FALSE)
    /\ UNCHANGED input

SpecDefaults == InitDefaults /\ [][InitializeProps \/ AddItem]_vars

\* C30: getDefaultValue returns a string without throwing for every PropType
\* of a required prop, so neither the effect that initializes the props nor
\* Add Item of the array editor fails on any shape.
C30_DefaultWithoutThrowing == pc # "ready" => ~output.threw

\* The element types whose default JSON.parse accepts.
RECURSIVE HasJSONDefault(_, _)
HasJSONDefault(propType, editor) ==
    \/ propType.kind \in {"array", "object"}
    \/ propType.kind = "primitive" /\ propType.syntax \in {"number", "boolean"}
    \/ propType.kind = "primitive" /\ propType.syntax = "object" /\ ~editor
    \/ propType.kind = "tuple"
       /\ \A i \in 1..Len(propType.types) : HasJSONDefault(propType.types[i], editor)
    \/ editor /\ isConstantUnion(propType)
       /\ propType.types[1].syntax \in {"42", "\"a\""}

\* A default is returned exactly when the type is no tuple, or a tuple whose
\* elements all have a default that is JSON.
C30_ThrowsOnTupleWithoutJSONDefault ==
    /\ pc = "initialized" /\ ~input.optional
       => (output.threw <=> (input.type.kind = "tuple" /\ ~HasJSONDefault(input.type, FALSE)))
    /\ pc = "added"
       => (output.threw <=> (input.type.elementType.kind = "tuple"
                             /\ ~HasJSONDefault(input.type.elementType, TRUE)))

\* The effect has run for a required prop of type [string, number].
C30_TupleOfStringThrows ==
    /\ pc = "initialized"
    /\ ~input.optional
    /\ input.type = TupleShape(<<PrimitiveShape("string"), PrimitiveShape("number")>>)
    /\ output = SyntaxError

\* A required prop of type [number, boolean] has the default [0,false].
C30_TupleOfNumberAndBoolean ==
    /\ pc = "initialized"
    /\ ~input.optional
    /\ input.type = TupleShape(<<PrimitiveShape("number"), PrimitiveShape("boolean")>>)
    /\ output = Returned(<<"[", "0", ",", "f", "a", "l", "s", "e", "]">>)

=============================================================================
